---------------------------- MODULE Spec2Model ----------------------------
(***************************************************************************)
(* A model of the Integrated Farm Budget Tool: the three formula engines   *)
(* (GovPmt, Cost, Revenue), their text-file loaders and their per-crop     *)
(* argument checks.                                                        *)
(*                                                                         *)
(* Numbers.  The engines compute with Python ints and floats.  The model   *)
(* computes with exact rationals <<n, d>> (d > 0, lowest terms); every     *)
(* fact and factor of the model is a dyadic rational of small magnitude,   *)
(* for which Python's float arithmetic is exact as well.  round() is       *)
(* Python 3's: to the nearest integer, a tie to the even neighbour.        *)
(***************************************************************************)
EXTENDS Integers, Sequences, FiniteSets, TLC

VARIABLES
    g,      \* the GovPmt instance: attribute name -> value
    gret,   \* the last GovPmt call and what it returned
    cst,    \* the Cost instance: attribute name -> value
    cres,   \* the Cost calls made so far and what each returned
    rv,     \* the Revenue instance: attribute name -> value
    rret,   \* the last Revenue call and what it returned
    files,  \* the text files a constructor reads: file kind -> lines
    inst,   \* what the last constructor call built (or how it failed)
    call    \* the last per-crop call and how it ended; where calls are
            \* repeated, the calls made so far and what each returned

govVars  == <<g, gret>>
costVars == <<cst, cres>>
revVars  == <<rv, rret>>
loadVars == <<files, inst>>
vars     == <<g, gret, cst, cres, rv, rret, files, inst, call>>

\* The value of a variable that takes no part in the specification at hand.
Idle == "idle"

----------------------------------------------------------------------------
(* Exact rational arithmetic                                               *)

Abs(n) == IF n < 0 THEN -n ELSE n

RECURSIVE GCD(_, _)
GCD(a, b) == IF b = 0 THEN a ELSE GCD(b, a % b)

\* n/d in lowest terms with a positive denominator (d # 0)
Q(n, d) ==
    LET k == GCD(Abs(n), Abs(d))
        s == IF d < 0 THEN -1 ELSE 1
    IN  <<(s * n) \div k, (s * d) \div k>>

I(n) == <<n, 1>>

RAdd(a, b) == Q(a[1] * b[2] + b[1] * a[2], a[2] * b[2])
RSub(a, b) == Q(a[1] * b[2] - b[1] * a[2], a[2] * b[2])
RMul(a, b) == Q(a[1] * b[1], a[2] * b[2])
RDiv(a, b) == Q(a[1] * b[2], a[2] * b[1])
RLt(a, b)  == a[1] * b[2] < b[1] * a[2]
RLe(a, b)  == a[1] * b[2] <= b[1] * a[2]

\* Python's max(a, b) and min(a, b): the first argument wins a tie
PyMax(a, b) == IF RLt(a, b) THEN b ELSE a
PyMin(a, b) == IF RLt(b, a) THEN b ELSE a

\* A plausible slip: round half up, floor(x + 1/2)
RoundHalfUp(a) == (2 * a[1] + a[2]) \div (2 * a[2])

\* Python 3's round(x): the nearest integer, a tie goes to the even one
PyRound(a) ==
    LET fl == a[1] \div a[2]
        r  == a[1] % a[2]
    IN  IF 2 * r < a[2] THEN fl
        ELSE IF 2 * r > a[2] THEN fl + 1
        ELSE IF fl % 2 = 0 THEN fl ELSE fl + 1

RECURSIVE RSum(_)
RSum(s) == IF s = <<>> THEN I(0) ELSE RAdd(Head(s), RSum(Tail(s)))

RECURSIVE ISum(_)
ISum(s) == IF s = <<>> THEN 0 ELSE Head(s) + ISum(Tail(s))

----------------------------------------------------------------------------
(* Sensitivity factors                                                     *)

MaxFactorNum == 4

\* the price and yield factors a caller passes: 1/2, 1, 3/2, 2, ...
Factors == {Q(k, 2) : k \in 1..MaxFactorNum}

One == I(1)

----------------------------------------------------------------------------
(* GovPmt                                                                  *)

PLC == 1
ARC_CO == 2

c(self, s, crop) == self[s \o "_" \o crop]

assumed_mya_price(self, crop, pf) ==
    RSub(RMul(c(self, "fut_price", crop), pf),
         c(self, "decrement_from_futures_to_mya", crop))

net_payment_acres(self, crop) ==
    RMul(self["base_to_net_pmt_frac"], c(self, "farm_base_acres", crop))

effective_price(self, crop, pf) ==
    PyMax(c(self, "natl_loan_rate", crop), assumed_mya_price(self, crop, pf))

effective_ref_rate(self, crop) ==
    PyMax(c(self, "stat_ref_rate_farm_bill", crop),
          PyMin(c(self, "stat_ref_rate_new_escal", crop),
                RMul(self["rate_cap_factor_new_escal"],
                     c(self, "stat_ref_rate_farm_bill", crop))))

plc_payment_rate1(self, crop, pf) ==
    PyMax(RSub(effective_ref_rate(self, crop), effective_price(self, crop, pf)),
          I(0))

max_plc_payment_rate(self, crop) ==
    RSub(c(self, "stat_ref_rate_farm_bill", crop),
         c(self, "natl_loan_rate", crop))

\* the PLC rate without its ceiling
plc_payment_rate_uncapped(self, crop, pf) ==
    plc_payment_rate1(self, crop, pf)

plc_payment_rate(self, crop, pf) ==
    PyMin(plc_payment_rate1(self, crop, pf), max_plc_payment_rate(self, crop))

farm_plc_yield(self, crop) ==
    RDiv(c(self, "farm_plc_bu", crop), c(self, "farm_base_acres", crop))

plc_pmt_pre_sequest(self, crop, pf) ==
    RMul(RMul(plc_payment_rate(self, crop, pf), net_payment_acres(self, crop)),
         farm_plc_yield(self, crop))

arc_bmk_county_revenue(self, crop) ==
    RMul(c(self, "arc_price", crop), c(self, "arc_yield", crop))

arc_capped_bmk_revenue(self, crop) ==
    RMul(arc_bmk_county_revenue(self, crop), self["cap_on_bmk_cty_rev"])

arc_guar_revenue(self, crop) ==
    RMul(arc_bmk_county_revenue(self, crop), self["guar_rev_frac"])

county_rma_yield(self, crop, yf) ==
    RMul(c(self, "est_county_yield", crop), yf)

actual_crop_revenue(self, crop, pf, yf) ==
    RMul(PyMax(assumed_mya_price(self, crop, pf),
               c(self, "natl_loan_rate", crop)),
         county_rma_yield(self, crop, yf))

\* the shortfall without its floor at 0
revenue_shortfall_unfloored(self, crop, pf, yf) ==
    RSub(arc_guar_revenue(self, crop), actual_crop_revenue(self, crop, pf, yf))

revenue_shortfall(self, crop, pf, yf) ==
    PyMax(I(0), RSub(arc_guar_revenue(self, crop),
                     actual_crop_revenue(self, crop, pf, yf)))

arc_pmt_rate(self, crop, pf, yf) ==
    PyMin(arc_capped_bmk_revenue(self, crop),
          revenue_shortfall(self, crop, pf, yf))

arc_pmt_pre_sequest(self, crop, pf, yf) ==
    RMul(net_payment_acres(self, crop), arc_pmt_rate(self, crop, pf, yf))

\* the selector of corn read for every crop
prog_pmt_pre_sequest_crop_corn_selector(self, crop, pf, yf) ==
    IF c(self, "program", "corn") = ARC_CO
    THEN arc_pmt_pre_sequest(self, crop, pf, yf)
    ELSE plc_pmt_pre_sequest(self, crop, pf)

\* the variant that computes PLC for the selector PLC alone
prog_pmt_pre_sequest_crop_arc_unless_plc(self, crop, pf, yf) ==
    IF c(self, "program", crop) = PLC
    THEN plc_pmt_pre_sequest(self, crop, pf)
    ELSE arc_pmt_pre_sequest(self, crop, pf, yf)

prog_pmt_pre_sequest_crop(self, crop, pf, yf) ==
    IF c(self, "program", crop) = ARC_CO
    THEN arc_pmt_pre_sequest(self, crop, pf, yf)
    ELSE plc_pmt_pre_sequest(self, crop, pf)

prog_pmt_pre_sequest(self, pf, yf) ==
    RSum(<<prog_pmt_pre_sequest_crop(self, "corn", pf, yf),
           prog_pmt_pre_sequest_crop(self, "soy", pf, yf),
           prog_pmt_pre_sequest_crop(self, "wheat", pf, yf)>>)

prog_pmt_post_sequest(self, pf, yf) ==
    RMul(prog_pmt_pre_sequest(self, pf, yf), RSub(I(1), self["sequest_frac"]))

total_gov_pmt(self, pf, yf) ==
    PyRound(PyMin(prog_pmt_post_sequest(self, pf, yf), self["fsa_pmt_cap"]))


----------------------------------------------------------------------------
(* The GovPmt instance after construction                                  *)

Crops == {"corn", "soy", "wheat"}

\* the values a caller stores in program_<crop>: PLC, ARC_CO and, past
\* ARC_CO, values that name no program
MaxProgram == 3
ProgramValues == 1..MaxProgram

\* The attributes GovPmt.__init__ sets from <year>_farm_data.txt and
\* <year>_gov_pmt_data.txt.  The corn and soy futures prices, the wheat loan
\* rate and the payment cap range over the data sets of GovDataSets.
GovData(futCorn, futSoy, loanWheat, cap) ==
       "base_to_net_pmt_frac"      :> Q(3, 4)
    @@ "rate_cap_factor_new_escal" :> Q(5, 4)
    @@ "cap_on_bmk_cty_rev"        :> Q(1, 4)
    @@ "guar_rev_frac"             :> Q(7, 8)
    @@ "sequest_frac"              :> Q(1, 8)
    @@ "fsa_pmt_cap"               :> cap
    @@ "program_corn"  :> PLC
    @@ "program_soy"   :> PLC
    @@ "program_wheat" :> PLC
    @@ "fut_price_corn"  :> futCorn
    @@ "fut_price_soy"   :> futSoy
    @@ "fut_price_wheat" :> I(6)
    @@ "decrement_from_futures_to_mya_corn"  :> Q(1, 2)
    @@ "decrement_from_futures_to_mya_soy"   :> Q(1, 2)
    @@ "decrement_from_futures_to_mya_wheat" :> I(1)
    @@ "farm_base_acres_corn"  :> I(16)
    @@ "farm_base_acres_soy"   :> I(8)
    @@ "farm_base_acres_wheat" :> I(4)
    @@ "natl_loan_rate_corn"  :> I(2)
    @@ "natl_loan_rate_soy"   :> I(4)
    @@ "natl_loan_rate_wheat" :> loanWheat
    @@ "stat_ref_rate_farm_bill_corn"  :> I(4)
    @@ "stat_ref_rate_farm_bill_soy"   :> I(8)
    @@ "stat_ref_rate_farm_bill_wheat" :> I(5)
    @@ "stat_ref_rate_new_escal_corn"  :> Q(9, 2)
    @@ "stat_ref_rate_new_escal_soy"   :> I(11)
    @@ "stat_ref_rate_new_escal_wheat" :> I(4)
    @@ "farm_plc_bu_corn"  :> I(32)
    @@ "farm_plc_bu_soy"   :> I(8)
    @@ "farm_plc_bu_wheat" :> I(6)
    @@ "arc_price_corn"  :> I(4)
    @@ "arc_price_soy"   :> I(8)
    @@ "arc_price_wheat" :> I(6)
    @@ "arc_yield_corn"  :> I(2)
    @@ "arc_yield_soy"   :> I(1)
    @@ "arc_yield_wheat" :> I(1)
    @@ "est_county_yield_corn"  :> I(2)
    @@ "est_county_yield_soy"   :> I(1)
    @@ "est_county_yield_wheat" :> I(1)

GovDataSets ==
    {GovData(fc, fs, lw, cap) :
        fc \in {I(4), I(6)}, fs \in {I(8)}, lw \in {I(3), I(7)},
        cap \in {I(40), Q(81, 2), Q(163, 4)}}

NoCall == [op |-> "none"]

----------------------------------------------------------------------------
(* GovPmt: the operations a caller performs on a loaded instance           *)

\* g.program_<crop> = p  (an attribute assignment by the caller)
SetProgram(crop, p) ==
    /\ gret = NoCall
    /\ g["program_" \o crop] # p
    /\ g' = [g EXCEPT !["program_" \o crop] = p]
    /\ UNCHANGED gret

CallTotalGovPmt(pf, yf) ==
    /\ gret = NoCall
    /\ gret' = [op |-> "total_gov_pmt", pf |-> pf, yf |-> yf,
                val |-> total_gov_pmt(g, pf, yf)]
    /\ UNCHANGED g

CallProgPmtCrop(crop, pf, yf) ==
    /\ gret = NoCall
    /\ gret' = [op |-> "prog_pmt_pre_sequest_crop", crop |-> crop,
                pf |-> pf, yf |-> yf,
                val |-> prog_pmt_pre_sequest_crop(g, crop, pf, yf)]
    /\ UNCHANGED g

CallArcPmtRate(crop, pf, yf) ==
    /\ gret = NoCall
    /\ gret' = [op |-> "arc_pmt_rate", crop |-> crop, pf |-> pf, yf |-> yf,
                val |-> arc_pmt_rate(g, crop, pf, yf)]
    /\ UNCHANGED g

CallPlcPaymentRate(crop, pf) ==
    /\ gret = NoCall
    /\ gret' = [op |-> "plc_payment_rate", crop |-> crop, pf |-> pf,
                val |-> plc_payment_rate(g, crop, pf)]
    /\ UNCHANGED g

CallPlcPmtPreSequest(crop, pf) ==
    /\ gret = NoCall
    /\ gret' = [op |-> "plc_pmt_pre_sequest", crop |-> crop, pf |-> pf,
                val |-> plc_pmt_pre_sequest(g, crop, pf)]
    /\ UNCHANGED g

\* the caller takes the returned value; the instance is ready for the next call
GovReturn ==
    /\ gret # NoCall
    /\ gret' = NoCall
    /\ UNCHANGED g

InitGov ==
    /\ g \in GovDataSets
    /\ gret = NoCall
    /\ cst = Idle /\ cres = Idle /\ rv = Idle /\ rret = Idle
    /\ files = Idle /\ inst = Idle /\ call = Idle

NextGov ==
    \/ \E crop \in Crops, p \in ProgramValues :
          SetProgram(crop, p) /\ UNCHANGED <<costVars, revVars, loadVars, call>>
    \/ \E pf \in Factors, yf \in Factors :
          CallTotalGovPmt(pf, yf) /\ UNCHANGED <<costVars, revVars, loadVars, call>>
    \/ \E crop \in Crops, pf \in Factors, yf \in Factors :
          CallProgPmtCrop(crop, pf, yf) /\ UNCHANGED <<costVars, revVars, loadVars, call>>
    \/ \E crop \in Crops, pf \in Factors, yf \in Factors :
          CallArcPmtRate(crop, pf, yf) /\ UNCHANGED <<costVars, revVars, loadVars, call>>
    \/ \E crop \in Crops, pf \in Factors :
          CallPlcPaymentRate(crop, pf) /\ UNCHANGED <<costVars, revVars, loadVars, call>>
    \/ \E crop \in Crops, pf \in Factors :
          CallPlcPmtPreSequest(crop, pf) /\ UNCHANGED <<costVars, revVars, loadVars, call>>
    \/ GovReturn /\ UNCHANGED <<costVars, revVars, loadVars, call>>

SpecGov == InitGov /\ [][NextGov]_vars

----------------------------------------------------------------------------
(* Cost                                                                    *)

\* getattr(self, f'{s}_{crop}')
attr(self, s, crop) == self[s \o "_" \o crop]

proj_yield_farm_crop(self, crop) ==
    IF crop = "soy"
    THEN RDiv(RAdd(RMul(self["acres_wheat_dc_soy"],
                        self["proj_yield_farm_dc_soy"]),
                   RMul(RSub(self["acres_soy"], self["acres_wheat_dc_soy"]),
                        self["proj_yield_farm_full_soy"])),
              self["acres_soy"])
    ELSE IF crop = "corn" THEN self["proj_yield_farm_corn"]
    ELSE self["proj_yield_farm_wheat"]

yield_dep_repl_fert_crop(self, crop, yield_factor) ==
    I(PyRound(RMul(RAdd(attr(self, "dap", crop),
                        attr(self, "repl_potash", crop)),
                   yield_factor)))

yield_dep_repl_fert(self, yield_factor) ==
    RSum(<<yield_dep_repl_fert_crop(self, "corn", yield_factor),
           yield_dep_repl_fert_crop(self, "soy", yield_factor)>>)

\* the whole estimate taken as yield-independent
yield_indep_repl_fert_crop_whole(self, crop) ==
    I(PyRound(attr(self, "cur_est_fertiilizer_cost", crop)))

yield_indep_repl_fert_crop(self, crop) ==
    I(PyRound(RSub(attr(self, "cur_est_fertiilizer_cost", crop),
                   yield_dep_repl_fert_crop(self, crop, One))))

yield_indep_repl_fert(self) ==
    RSum(<<yield_indep_repl_fert_crop(self, "corn"),
           yield_indep_repl_fert_crop(self, "soy")>>)

total_fert_crop(self, crop, yield_factor) ==
    RAdd(yield_indep_repl_fert_crop(self, crop),
         yield_dep_repl_fert_crop(self, crop, yield_factor))

total_fert(self, yield_factor) ==
    RSum(<<total_fert_crop(self, "corn", yield_factor),
           total_fert_crop(self, "soy", yield_factor)>>)

\* the hauling term with its sign flipped
incremental_wheat_cost_minus(self, yield_factor) ==
    I(PyRound(RSub(self["incremental_wheat_cost_base"],
                   RMul(self["wheat_hauling_base"],
                        RSub(yield_factor, I(1))))))

incremental_wheat_cost(self, yield_factor) ==
    I(PyRound(RAdd(self["incremental_wheat_cost_base"],
                   RMul(self["wheat_hauling_base"],
                        RSub(yield_factor, I(1))))))

clear_diesel_base_cost_crop(self, crop) ==
    RMul(RMul(RMul(self["clear_gpa_2018"], attr(self, "acres", crop)),
              self["clear_diesel_price"]),
         attr(self, "fuel_alloc", crop))

clear_diesel_cost_crop(self, crop, yield_factor) ==
    I(PyRound(
        RMul(clear_diesel_base_cost_crop(self, crop),
             RAdd(RSub(I(1), self["est_haul_alloc"]),
                  RMul(RDiv(RMul(self["est_haul_alloc"],
                                 proj_yield_farm_crop(self, crop)),
                            attr(self, "yield_2018", crop)),
                       yield_factor)))))

dyed_diesel_cost_crop(self, crop) ==
    I(PyRound(
        RMul(RMul(RMul(self["dyed_gpa_2018"], attr(self, "acres", crop)),
                  self["dyed_diesel_price"]),
             attr(self, "fuel_alloc", crop))))

diesel_cost_crop(self, crop, yield_factor) ==
    RAdd(clear_diesel_cost_crop(self, crop, yield_factor),
         dyed_diesel_cost_crop(self, crop))

diesel_cost(self, yield_factor) ==
    RSum(<<diesel_cost_crop(self, "corn", yield_factor),
           diesel_cost_crop(self, "soy", yield_factor)>>)

gas_electric_cost_crop(self, crop, yield_factor) ==
    I(PyRound(RMul(attr(self, "gas_electric", crop), yield_factor)))

gas_electric_cost(self, yield_factor) ==
    RSum(<<gas_electric_cost_crop(self, "corn", yield_factor),
           gas_electric_cost_crop(self, "soy", yield_factor)>>)

total_variable_cost_crop(self, crop, yield_factor) ==
    IF crop = "wheat"
    THEN incremental_wheat_cost(self, yield_factor)
    ELSE RSum(<<attr(self, "seed_plus_treatment", crop),
                attr(self, "chemicals", crop),
                attr(self, "wind_peril_premium", crop),
                attr(self, "minus_wind_peril_indemnity", crop),
                total_fert_crop(self, crop, yield_factor),
                diesel_cost_crop(self, crop, yield_factor),
                gas_electric_cost_crop(self, crop, yield_factor)>>)

total_variable_cost(self, yield_factor) ==
    RSum(<<total_variable_cost_crop(self, "corn", yield_factor),
           total_variable_cost_crop(self, "soy", yield_factor),
           total_variable_cost_crop(self, "wheat", yield_factor)>>)

payroll_crop(self, crop, yield_factor) ==
    I(PyRound(
        RMul(RMul(self["est_payroll"], attr(self, "payroll_alloc", crop)),
             RAdd(I(1),
                  RMul(self["payroll_pct_ot"],
                       RSub(RDiv(RMul(proj_yield_farm_crop(self, crop),
                                      yield_factor),
                                 attr(self, "yield_2018", crop)),
                            I(1)))))))

total_payroll(self, yield_factor) ==
    RSum(<<payroll_crop(self, "corn", yield_factor),
           payroll_crop(self, "soy", yield_factor)>>)

total_overhead_crop(self, crop, yield_factor) ==
    RSum(<<payroll_crop(self, crop, yield_factor),
           attr(self, "replacement_capital", crop),
           attr(self, "building_equip_repairs", crop),
           attr(self, "shop_tools_supplies_parts", crop),
           attr(self, "business_insurance", crop),
           attr(self, "other_utilities", crop),
           attr(self, "professional_fees", crop),
           attr(self, "other_operating_expense", crop),
           attr(self, "total_land_expenses", crop)>>)

total_overhead(self, yield_factor) ==
    RSum(<<total_overhead_crop(self, "corn", yield_factor),
           total_overhead_crop(self, "soy", yield_factor)>>)

\* the variant that keeps a running count of the calls made on the instance
\* and adds it to the total
total_cost_running(self, yield_factor) ==
    RAdd(RAdd(total_variable_cost(self, yield_factor),
              total_overhead(self, yield_factor)),
         I(Cardinality(DOMAIN call)))

total_cost(self, yield_factor) ==
    RAdd(total_variable_cost(self, yield_factor),
         total_overhead(self, yield_factor))

----------------------------------------------------------------------------
(* The Cost instance after construction                                    *)

\* The attributes Cost.__init__ sets from <year>_cost_data.txt.  fert is
\* <<dap_corn, repl_potash_corn>>, rest is <<clear_diesel_price,
\* est_payroll>>; these, the corn fertilizer estimate, the corn gas and
\* electricity base and the two wheat facts range over CostDataSets.
CostData(fert, cur, gas, haul, wbase, rest) ==
       "acres_corn" :> I(8)
    @@ "acres_soy"  :> I(8)
    @@ "acres_wheat_dc_soy"       :> I(4)
    @@ "proj_yield_farm_dc_soy"   :> I(2)
    @@ "proj_yield_farm_full_soy" :> I(4)
    @@ "proj_yield_farm_corn"     :> I(4)
    @@ "proj_yield_farm_wheat"    :> I(2)
    @@ "yield_2018_corn" :> I(4)
    @@ "yield_2018_soy"  :> I(2)
    @@ "dap_corn" :> fert[1]
    @@ "dap_soy"  :> Q(1, 8)
    @@ "repl_potash_corn" :> fert[2]
    @@ "repl_potash_soy"  :> Q(1, 8)
    @@ "cur_est_fertiilizer_cost_corn" :> cur
    @@ "cur_est_fertiilizer_cost_soy"  :> Q(15, 2)
    @@ "incremental_wheat_cost_base" :> wbase
    @@ "wheat_hauling_base"          :> haul
    @@ "clear_gpa_2018"     :> Q(1, 2)
    @@ "clear_diesel_price" :> rest[1]
    @@ "dyed_gpa_2018"      :> Q(1, 2)
    @@ "dyed_diesel_price"  :> I(1)
    @@ "est_haul_alloc"     :> Q(1, 4)
    @@ "fuel_alloc_corn" :> Q(1, 2)
    @@ "fuel_alloc_soy"  :> Q(1, 2)
    @@ "gas_electric_corn" :> gas
    @@ "gas_electric_soy"  :> Q(1, 4)
    @@ "seed_plus_treatment_corn" :> I(3)
    @@ "seed_plus_treatment_soy"  :> I(2)
    @@ "chemicals_corn" :> I(2)
    @@ "chemicals_soy"  :> Q(3, 2)
    @@ "wind_peril_premium_corn" :> I(1)
    @@ "wind_peril_premium_soy"  :> I(1)
    @@ "minus_wind_peril_indemnity_corn" :> Q(-1, 2)
    @@ "minus_wind_peril_indemnity_soy"  :> I(0)
    @@ "est_payroll"    :> rest[2]
    @@ "payroll_pct_ot" :> Q(1, 4)
    @@ "payroll_alloc_corn" :> Q(1, 2)
    @@ "payroll_alloc_soy"  :> Q(1, 2)
    @@ "replacement_capital_corn" :> I(2)
    @@ "replacement_capital_soy"  :> I(1)
    @@ "building_equip_repairs_corn" :> I(1)
    @@ "building_equip_repairs_soy"  :> I(1)
    @@ "shop_tools_supplies_parts_corn" :> Q(1, 2)
    @@ "shop_tools_supplies_parts_soy"  :> Q(1, 2)
    @@ "business_insurance_corn" :> I(1)
    @@ "business_insurance_soy"  :> I(1)
    @@ "other_utilities_corn" :> I(1)
    @@ "other_utilities_soy"  :> I(0)
    @@ "professional_fees_corn" :> I(1)
    @@ "professional_fees_soy"  :> I(1)
    @@ "other_operating_expense_corn" :> I(1)
    @@ "other_operating_expense_soy"  :> I(2)
    @@ "total_land_expenses_corn" :> I(5)
    @@ "total_land_expenses_soy"  :> I(4)

CostDataSets ==
    {CostData(fert, cur, gas, haul, wbase, rest) :
        fert  \in {<<Q(1, 8), Q(1, 8)>>, <<I(2), I(1)>>},
        cur   \in {Q(25, 2), I(13)},
        gas   \in {Q(1, 4), Q(5, 2)},
        haul  \in {Q(1, 4), I(4)},
        wbase \in {I(10), Q(21, 2)},
        rest  \in {<<Q(1, 8), Q(1, 2)>>, <<I(4), I(16)>>}}

\* no total_cost call made yet
NoCalls == <<>>

CornSoy == {"corn", "soy"}

----------------------------------------------------------------------------
(* Cost: the operations a caller performs on a loaded instance             *)

\* c.total_cost(yf); cres keeps what each call returned, by its factor
CallTotalCost(yf) ==
    /\ call = NoCall
    /\ cres' = (yf :> total_cost(cst, yf)) @@ cres
    /\ UNCHANGED <<cst, call>>

CallTotalFertCrop(crop, yf) ==
    /\ call = NoCall
    /\ call' = [op |-> "total_fert_crop", crop |-> crop, yf |-> yf,
                val |-> total_fert_crop(cst, crop, yf)]
    /\ UNCHANGED <<cst, cres>>

CallGasElectricCostCrop(crop, yf) ==
    /\ call = NoCall
    /\ call' = [op |-> "gas_electric_cost_crop", crop |-> crop, yf |-> yf,
                val |-> gas_electric_cost_crop(cst, crop, yf)]
    /\ UNCHANGED <<cst, cres>>

CallIncrementalWheatCost(yf) ==
    /\ call = NoCall
    /\ call' = [op |-> "incremental_wheat_cost", yf |-> yf,
                val |-> incremental_wheat_cost(cst, yf)]
    /\ UNCHANGED <<cst, cres>>

\* the caller takes the returned value
CostReturn ==
    /\ call # NoCall
    /\ call' = NoCall
    /\ UNCHANGED <<cst, cres>>

InitCost ==
    /\ cst \in CostDataSets
    /\ cres = NoCalls
    /\ call = NoCall
    /\ g = Idle /\ gret = Idle /\ rv = Idle /\ rret = Idle
    /\ files = Idle /\ inst = Idle

NextCost ==
    \/ \E yf \in Factors :
          CallTotalCost(yf) /\ UNCHANGED <<govVars, revVars, loadVars>>
    \/ \E crop \in CornSoy, yf \in Factors :
          CallTotalFertCrop(crop, yf) /\ UNCHANGED <<govVars, revVars, loadVars>>
    \/ \E crop \in CornSoy, yf \in Factors :
          CallGasElectricCostCrop(crop, yf) /\ UNCHANGED <<govVars, revVars, loadVars>>
    \/ \E yf \in Factors :
          CallIncrementalWheatCost(yf) /\ UNCHANGED <<govVars, revVars, loadVars>>
    \/ CostReturn /\ UNCHANGED <<govVars, revVars, loadVars>>

SpecCost == InitCost /\ [][NextCost]_vars

----------------------------------------------------------------------------
(* Claims about Cost (checked under SpecCost)                              *)

\* The yield-dependent terms of total_cost are all positive: dap +
\* repl_potash and gas_electric of corn and soy, wheat_hauling_base, the
\* hauling share of clear diesel and the overtime share of payroll.
C5_YieldTermsPositive ==
    /\ RLt(I(0), cst["wheat_hauling_base"])
    /\ \A crop \in CornSoy :
         /\ RLt(I(0), RAdd(cst["dap_" \o crop], cst["repl_potash_" \o crop]))
         /\ RLt(I(0), cst["gas_electric_" \o crop])
         /\ RLt(I(0), RMul(clear_diesel_base_cost_crop(cst, crop),
                           RDiv(RMul(cst["est_haul_alloc"],
                                     proj_yield_farm_crop(cst, crop)),
                                cst["yield_2018_" \o crop])))
         /\ RLt(I(0), RMul(RMul(RMul(cst["est_payroll"],
                                     cst["payroll_alloc_" \o crop]),
                                cst["payroll_pct_ot"]),
                           RDiv(proj_yield_farm_crop(cst, crop),
                                cst["yield_2018_" \o crop])))

\* C5 (as claimed): with positive yield-dependent terms, of two total_cost
\* calls the one with the smaller yield factor returns strictly less.
C5_StrictlyIncreasing ==
    C5_YieldTermsPositive =>
        \A y1 \in DOMAIN cres, y2 \in DOMAIN cres :
            RLt(y1, y2) => RLt(cres[y1], cres[y2])

\* C5 (amended): with positive yield-dependent terms, of two total_cost
\* calls the one with the smaller yield factor never returns more; the two
\* can be equal, since every term is rounded to whole dollars.
C5_NonDecreasing ==
    C5_YieldTermsPositive =>
        \A y1 \in DOMAIN cres, y2 \in DOMAIN cres :
            RLt(y1, y2) => RLe(cres[y1], cres[y2])

\* C5 witness: the terms are positive and two total_cost calls were made of
\* which the one with the smaller factor returned strictly less.
C5_Witness ==
    /\ C5_YieldTermsPositive
    /\ \E y1 \in DOMAIN cres, y2 \in DOMAIN cres :
         RLt(y1, y2) /\ RLt(cres[y1], cres[y2])

\* The gas/electric and wheat parts of C6, which hold as claimed: at yield
\* factor 1 each returns its rounded base fact.
C6_GasAndWheatAtOne ==
    /\ (call # NoCall /\ call.op = "gas_electric_cost_crop" /\ call.yf = One)
         => call.val = I(PyRound(cst["gas_electric_" \o call.crop]))
    /\ (call # NoCall /\ call.op = "incremental_wheat_cost" /\ call.yf = One)
         => call.val = I(PyRound(cst["incremental_wheat_cost_base"]))

\* C6 (as claimed): at yield factor 1, total_fert_crop returns the rounded
\* baseline cur_est_fertilizer_cost of the crop, gas_electric_cost_crop the
\* rounded gas_electric fact and incremental_wheat_cost the rounded
\* incremental_wheat_cost_base.
C6_BaselineAtOne ==
    /\ (call # NoCall /\ call.op = "total_fert_crop" /\ call.yf = One)
         => call.val
              = I(PyRound(cst["cur_est_fertiilizer_cost_" \o call.crop]))
    /\ C6_GasAndWheatAtOne

\* C6 (amended): at yield factor 1, total_fert_crop returns
\* round(baseline - round(dap + repl_potash)) + round(dap + repl_potash), an
\* integer within 1/2 of the baseline, which is the rounded baseline
\* whenever the baseline is not exactly halfway between two integers; the
\* gas/electric and wheat parts are as claimed.
C6_BaselineAtOneUpToTies ==
    /\ (call # NoCall /\ call.op = "total_fert_crop" /\ call.yf = One) =>
         LET cur == cst["cur_est_fertiilizer_cost_" \o call.crop]
             dep == PyRound(RAdd(cst["dap_" \o call.crop],
                                 cst["repl_potash_" \o call.crop]))
         IN  /\ call.val = I(PyRound(RSub(cur, I(dep))) + dep)
             /\ RLe(RSub(call.val, cur), Q(1, 2))
             /\ RLe(RSub(cur, call.val), Q(1, 2))
             /\ (2 * cur[1]) % cur[2] # 0 \/ (2 * cur[1]) \div cur[2] % 2 = 0
                  => call.val = I(PyRound(cur))
    /\ C6_GasAndWheatAtOne

\* C6 witness: total_fert_crop was called at yield factor 1 for a crop whose
\* yield-dependent part is not 0 and returned the rounded baseline.
C6_Witness ==
    /\ call # NoCall
    /\ call.op = "total_fert_crop"
    /\ call.yf = One
    /\ yield_dep_repl_fert_crop(cst, call.crop, One) # I(0)
    /\ call.val = I(PyRound(cst["cur_est_fertiilizer_cost_" \o call.crop]))

----------------------------------------------------------------------------
(* Claims about GovPmt (checked under SpecGov)                             *)

\* C1 (as claimed): whatever the facts, the selectors and the factors, the
\* value total_gov_pmt returns is never greater than fsa_pmt_cap, a cap that
\* is not a whole number included.
C1_TotalNeverExceedsCap ==
    gret.op = "total_gov_pmt" => RLe(I(gret.val), g["fsa_pmt_cap"])

C2_ProgramKey(crop) == "program_" \o crop

\* C2: a step that changes program_<crop> leaves every other attribute as it
\* was, leaves the pre-sequestration payment of each other crop as it was for
\* every pf and yf, and the next call computes this crop's payment by the
\* newly selected formula from the unchanged facts.
C2_ProgramSwitchFrame ==
    [][\A crop \in Crops :
         g'[C2_ProgramKey(crop)] # g[C2_ProgramKey(crop)] =>
           /\ DOMAIN g' = DOMAIN g
           /\ \A k \in DOMAIN g \ {C2_ProgramKey(crop)} : g'[k] = g[k]
           /\ \A o \in Crops \ {crop}, pf \in Factors, yf \in Factors :
                prog_pmt_pre_sequest_crop(g', o, pf, yf)
                  = prog_pmt_pre_sequest_crop(g, o, pf, yf)
           /\ \A pf \in Factors, yf \in Factors :
                prog_pmt_pre_sequest_crop(g', crop, pf, yf)
                  = IF g'[C2_ProgramKey(crop)] = ARC_CO
                    THEN arc_pmt_pre_sequest(g, crop, pf, yf)
                    ELSE plc_pmt_pre_sequest(g, crop, pf)]_vars

\* C2 witness: corn was switched to ARC-CO while soy and wheat stayed PLC,
\* and the next call for corn returned the ARC-CO payment, which differs
\* from the PLC payment of the same facts.
C2_Witness ==
    /\ g["program_corn"] = ARC_CO
    /\ g["program_soy"] = PLC
    /\ g["program_wheat"] = PLC
    /\ gret.op = "prog_pmt_pre_sequest_crop"
    /\ gret.crop = "corn"
    /\ gret.val = arc_pmt_pre_sequest(g, "corn", gret.pf, gret.yf)
    /\ gret.val # plc_pmt_pre_sequest(g, "corn", gret.pf)

\* The quantities of the ARC-CO claim, written from the facts.
C3_Benchmark(crop) == RMul(g["arc_price_" \o crop], g["arc_yield_" \o crop])
C3_Cap(crop) == RMul(C3_Benchmark(crop), g["cap_on_bmk_cty_rev"])
C3_Guarantee(crop) == RMul(C3_Benchmark(crop), g["guar_rev_frac"])
C3_Actual(crop, pf, yf) ==
    RMul(RMul(PyMax(RSub(RMul(g["fut_price_" \o crop], pf),
                         g["decrement_from_futures_to_mya_" \o crop]),
                    g["natl_loan_rate_" \o crop]),
              g["est_county_yield_" \o crop]),
         yf)
C3_Shortfall(crop, pf, yf) ==
    LET d == RSub(C3_Guarantee(crop), C3_Actual(crop, pf, yf))
    IN  IF RLt(d, I(0)) THEN I(0) ELSE d

\* C3: arc_pmt_rate is min(benchmark x cap fraction, max(0, guarantee -
\* actual revenue)): between 0 and the capped benchmark, and 0 whenever the
\* actual revenue reaches the guarantee; with all three crops under ARC-CO
\* and no crop short of its guarantee, total_gov_pmt returns 0.
C3_ArcRate ==
    /\ gret.op = "arc_pmt_rate" =>
         LET capv == C3_Cap(gret.crop)
             sf   == C3_Shortfall(gret.crop, gret.pf, gret.yf)
         IN  /\ gret.val = (IF RLt(sf, capv) THEN sf ELSE capv)
             /\ RLe(I(0), gret.val)
             /\ RLe(gret.val, capv)
             /\ RLe(C3_Guarantee(gret.crop),
                    C3_Actual(gret.crop, gret.pf, gret.yf)) => gret.val = I(0)
    /\ ( /\ gret.op = "total_gov_pmt"
         /\ \A crop \in Crops : g[C2_ProgramKey(crop)] = ARC_CO
         /\ \A crop \in Crops :
              RLe(C3_Guarantee(crop), C3_Actual(crop, gret.pf, gret.yf)) )
       => gret.val = 0

\* C3 witness: all three crops under ARC-CO, none short of its guarantee,
\* and total_gov_pmt was called and returned 0.
C3_Witness ==
    /\ gret.op = "total_gov_pmt"
    /\ \A crop \in Crops : g[C2_ProgramKey(crop)] = ARC_CO
    /\ \A crop \in Crops :
         RLe(C3_Guarantee(crop), C3_Actual(crop, gret.pf, gret.yf))
    /\ gret.val = 0

\* The quantities of the PLC claim, written from the facts.
C4_EffectivePrice(crop, pf) ==
    LET mya == RSub(RMul(g["fut_price_" \o crop], pf),
                    g["decrement_from_futures_to_mya_" \o crop])
        loan == g["natl_loan_rate_" \o crop]
    IN  IF RLt(loan, mya) THEN mya ELSE loan
C4_EffectiveRefRate(crop) ==
    LET ref   == g["stat_ref_rate_farm_bill_" \o crop]
        escal == g["stat_ref_rate_new_escal_" \o crop]
        capd  == RMul(g["rate_cap_factor_new_escal"], ref)
        lower == IF RLt(capd, escal) THEN capd ELSE escal
    IN  IF RLt(ref, lower) THEN lower ELSE ref
C4_MaxRate(crop) ==
    RSub(g["stat_ref_rate_farm_bill_" \o crop], g["natl_loan_rate_" \o crop])
C4_Rate(crop, pf) ==
    LET d   == RSub(C4_EffectiveRefRate(crop), C4_EffectivePrice(crop, pf))
        raw == IF RLt(d, I(0)) THEN I(0) ELSE d
    IN  IF RLt(C4_MaxRate(crop), raw) THEN C4_MaxRate(crop) ELSE raw

\* C4: plc_payment_rate is min(max(effective_ref_rate - effective_price, 0),
\* stat_ref_rate - natl_loan_rate), so never above stat_ref_rate -
\* natl_loan_rate, and the PLC payment is that rate x net payment acres x
\* (farm_plc_bu / farm_base_acres).
C4_PlcRate ==
    /\ gret.op = "plc_payment_rate" =>
         /\ gret.val = C4_Rate(gret.crop, gret.pf)
         /\ RLe(gret.val, C4_MaxRate(gret.crop))
    /\ gret.op = "plc_pmt_pre_sequest" =>
         gret.val =
           RMul(RMul(C4_Rate(gret.crop, gret.pf),
                     RMul(g["base_to_net_pmt_frac"],
                          g["farm_base_acres_" \o gret.crop])),
                RDiv(g["farm_plc_bu_" \o gret.crop],
                     g["farm_base_acres_" \o gret.crop]))

\* C4 witness: plc_payment_rate was called where the raw rate is above the
\* ceiling stat_ref_rate - natl_loan_rate, and returned the ceiling.
C4_Witness ==
    /\ gret.op = "plc_payment_rate"
    /\ RLt(C4_MaxRate(gret.crop),
           RSub(C4_EffectiveRefRate(gret.crop),
                C4_EffectivePrice(gret.crop, gret.pf)))
    /\ RLt(I(0), gret.val)
    /\ gret.val = C4_MaxRate(gret.crop)

----------------------------------------------------------------------------
(* Revenue                                                                 *)

\* x/100.
Pct(x) == RDiv(x, I(100))

deliverable_bu_corn(self, yield_factor) ==
    RMul(RMul(RMul(self["acres_corn"], self["proj_yield_farm_corn"]),
              RSub(I(1), Pct(self["est_shrink_corn"]))),
         yield_factor)

estimated_soy_bushels(self) ==
    RAdd(RMul(self["acres_wheat_dc_soy"], self["proj_yield_farm_dc_soy"]),
         RMul(RSub(self["acres_soy"], self["acres_wheat_dc_soy"]),
              self["proj_yield_farm_full_soy"]))

projected_yield_soy(self) ==
    RDiv(estimated_soy_bushels(self), self["acres_soy"])

deliverable_bu_soy(self, yield_factor) ==
    RMul(RMul(estimated_soy_bushels(self),
              RSub(I(1), Pct(self["est_shrink_soy"]))),
         yield_factor)

revenue_uncontracted_crop(self, crop, price_factor, yield_factor) ==
    I(PyRound(
        RMul(RMul(RSub(IF crop = "corn"
                       THEN deliverable_bu_corn(self, yield_factor)
                       ELSE deliverable_bu_soy(self, yield_factor),
                       attr(self, "contract_bu", crop)),
                  RAdd(RMul(attr(self, "fall_futures_price", crop),
                            price_factor),
                       attr(self, "est_basis", crop))),
             RSub(I(1), Pct(attr(self, "est_deduct", crop))))))

revenue_uncontracted(self, price_factor, yield_factor) ==
    RSum(<<revenue_uncontracted_crop(self, "corn", price_factor, yield_factor),
           revenue_uncontracted_crop(self, "soy", price_factor, yield_factor)>>)

revenue_contracted_crop(self, crop) ==
    I(PyRound(
        RMul(RMul(attr(self, "contract_bu", crop),
                  attr(self, "avg_contract_price", crop)),
             RSub(I(1), Pct(attr(self, "est_deduct", crop))))))

\* the variant in which the contract price is scaled by price_factor
revenue_contracted_priced(self, price_factor) ==
    RSum(<<I(PyRound(RMul(revenue_contracted_crop(self, "corn"), price_factor))),
           I(PyRound(RMul(revenue_contracted_crop(self, "soy"), price_factor)))>>)

revenue_contracted(self, price_factor) ==
    RSum(<<revenue_contracted_crop(self, "corn"),
           revenue_contracted_crop(self, "soy")>>)

total_revenue_crop(self, crop, price_factor, yield_factor) ==
    IF crop = "wheat"
    THEN self["revenue_wheat"]
    ELSE RAdd(revenue_contracted_crop(self, crop),
              revenue_uncontracted_crop(self, crop, price_factor, yield_factor))

total_revenue_grain(self, price_factor, yield_factor) ==
    RSum(<<total_revenue_crop(self, "corn", price_factor, yield_factor),
           total_revenue_crop(self, "soy", price_factor, yield_factor),
           total_revenue_crop(self, "wheat", price_factor, yield_factor)>>)

other_items(self, crop) ==
    RAdd(RAdd(RAdd(attr(self, "ppp_loan_forgive", crop),
                   attr(self, "mfp_cfap", crop)),
              attr(self, "rental_revenue", crop)),
         attr(self, "other_revenue", crop))

total_revenue_other(self) ==
    RSum(<<other_items(self, "corn"), other_items(self, "soy")>>)

total_revenue(self, price_factor, yield_factor) ==
    RSum(<<self["revenue_wheat"],
           revenue_uncontracted(self, price_factor, yield_factor),
           revenue_contracted(self, One),
           total_revenue_other(self)>>)

----------------------------------------------------------------------------
(* The Revenue instance after construction                                 *)

\* The attributes Revenue.__init__ sets from <year>_revenue_data.txt.  The
\* contracted corn bushels, the corn contract price, the corn deduction and
\* the wheat revenue range over RevenueDataSets.
RevenueData(cbu, cprice, deduct, wheat) ==
       "acres_corn" :> I(8)
    @@ "acres_soy"  :> I(8)
    @@ "acres_wheat_dc_soy"       :> I(4)
    @@ "proj_yield_farm_corn"     :> I(4)
    @@ "proj_yield_farm_dc_soy"   :> I(2)
    @@ "proj_yield_farm_full_soy" :> I(4)
    @@ "est_shrink_corn" :> I(25)
    @@ "est_shrink_soy"  :> I(0)
    @@ "contract_bu_corn" :> cbu
    @@ "contract_bu_soy"  :> I(4)
    @@ "fall_futures_price_corn" :> I(4)
    @@ "fall_futures_price_soy"  :> I(8)
    @@ "est_basis_corn" :> Q(-1, 4)
    @@ "est_basis_soy"  :> Q(-1, 2)
    @@ "est_deduct_corn" :> deduct
    @@ "est_deduct_soy"  :> I(50)
    @@ "avg_contract_price_corn" :> cprice
    @@ "avg_contract_price_soy"  :> I(9)
    @@ "revenue_wheat" :> wheat
    @@ "ppp_loan_forgive_corn" :> I(0)
    @@ "ppp_loan_forgive_soy"  :> I(1)
    @@ "mfp_cfap_corn" :> I(2)
    @@ "mfp_cfap_soy"  :> Q(3, 2)
    @@ "rental_revenue_corn" :> I(3)
    @@ "rental_revenue_soy"  :> I(0)
    @@ "other_revenue_corn" :> Q(1, 4)
    @@ "other_revenue_soy"  :> I(1)

RevenueDataSets ==
    {RevenueData(cbu, cprice, deduct, wheat) :
        cbu \in {I(0), I(7)}, cprice \in {Q(9, 2), I(5)},
        deduct \in {I(0), I(25)}, wheat \in {I(10), Q(21, 2)}}

----------------------------------------------------------------------------
(* Revenue: the operations a caller performs on a loaded instance          *)

CallTotalRevenue(pf, yf) ==
    /\ rret = NoCall
    /\ rret' = [op |-> "total_revenue", pf |-> pf, yf |-> yf,
                val |-> total_revenue(rv, pf, yf)]
    /\ UNCHANGED rv

CallRevenueUncontracted(pf, yf) ==
    /\ rret = NoCall
    /\ rret' = [op |-> "revenue_uncontracted", pf |-> pf, yf |-> yf,
                val |-> revenue_uncontracted(rv, pf, yf)]
    /\ UNCHANGED rv

CallRevenueContracted(pf) ==
    /\ rret = NoCall
    /\ rret' = [op |-> "revenue_contracted", pf |-> pf,
                val |-> revenue_contracted(rv, pf)]
    /\ UNCHANGED rv

CallTotalRevenueGrain(pf, yf) ==
    /\ rret = NoCall
    /\ rret' = [op |-> "total_revenue_grain", pf |-> pf, yf |-> yf,
                val |-> total_revenue_grain(rv, pf, yf)]
    /\ UNCHANGED rv

CallTotalRevenueOther ==
    /\ rret = NoCall
    /\ rret' = [op |-> "total_revenue_other", val |-> total_revenue_other(rv)]
    /\ UNCHANGED rv

\* the caller takes the returned value
RevenueReturn ==
    /\ rret # NoCall
    /\ rret' = NoCall
    /\ UNCHANGED rv

InitRevenue ==
    /\ rv \in RevenueDataSets
    /\ rret = NoCall
    /\ g = Idle /\ gret = Idle /\ cst = Idle /\ cres = Idle
    /\ files = Idle /\ inst = Idle /\ call = Idle

NextRevenue ==
    \/ \E pf \in Factors, yf \in Factors :
          CallTotalRevenue(pf, yf) /\ UNCHANGED <<govVars, costVars, loadVars, call>>
    \/ \E pf \in Factors, yf \in Factors :
          CallRevenueUncontracted(pf, yf) /\ UNCHANGED <<govVars, costVars, loadVars, call>>
    \/ \E pf \in Factors :
          CallRevenueContracted(pf) /\ UNCHANGED <<govVars, costVars, loadVars, call>>
    \/ \E pf \in Factors, yf \in Factors :
          CallTotalRevenueGrain(pf, yf) /\ UNCHANGED <<govVars, costVars, loadVars, call>>
    \/ CallTotalRevenueOther /\ UNCHANGED <<govVars, costVars, loadVars, call>>
    \/ RevenueReturn /\ UNCHANGED <<govVars, costVars, loadVars, call>>

SpecRevenue == InitRevenue /\ [][NextRevenue]_vars

----------------------------------------------------------------------------
(* Claims about Revenue (checked under SpecRevenue)                        *)

\* round(contract_bu x avg_contract_price x (1 - est_deduct/100)), from the
\* facts
C7_Contracted(crop) ==
    PyRound(RMul(RMul(rv["contract_bu_" \o crop],
                      rv["avg_contract_price_" \o crop]),
                 RSub(I(1), RDiv(rv["est_deduct_" \o crop], I(100)))))

\* revenue_wheat + contracted revenue of corn and soy + the eight other
\* revenue items, from the facts
C7_Fixed ==
    RSum(<<rv["revenue_wheat"],
           I(C7_Contracted("corn")), I(C7_Contracted("soy")),
           rv["ppp_loan_forgive_corn"], rv["mfp_cfap_corn"],
           rv["rental_revenue_corn"], rv["other_revenue_corn"],
           rv["ppp_loan_forgive_soy"], rv["mfp_cfap_soy"],
           rv["rental_revenue_soy"], rv["other_revenue_soy"]>>)

----------------------------------------------------------------------------
(* Per-crop operations called with any crop name                           *)

\* the crop names a caller passes: the three crops of the farm and a name
\* no engine knows
CropNames == {"corn", "soy", "wheat", "rice"}

\* the per-crop methods of Cost
CostCropOps ==
    {"proj_yield_farm_crop", "yield_dep_repl_fert_crop",
     "yield_indep_repl_fert_crop", "total_fert_crop",
     "clear_diesel_base_cost_crop", "clear_diesel_cost_crop",
     "dyed_diesel_cost_crop", "diesel_cost_crop", "gas_electric_cost_crop",
     "total_variable_cost_crop", "payroll_crop", "total_overhead_crop"}

\* the list in the method's "if crop not in [...]" test
cost_crop_list(op) ==
    IF op \in {"proj_yield_farm_crop", "total_variable_cost_crop"}
    THEN {"corn", "soy", "wheat"}
    ELSE {"corn", "soy"}

\* what the method returns once its crop test has passed
cost_crop_value(self, op, crop, yf) ==
    CASE op = "proj_yield_farm_crop" -> proj_yield_farm_crop(self, crop)
      [] op = "yield_dep_repl_fert_crop" ->
             yield_dep_repl_fert_crop(self, crop, yf)
      [] op = "yield_indep_repl_fert_crop" ->
             yield_indep_repl_fert_crop(self, crop)
      [] op = "total_fert_crop" -> total_fert_crop(self, crop, yf)
      [] op = "clear_diesel_base_cost_crop" ->
             clear_diesel_base_cost_crop(self, crop)
      [] op = "clear_diesel_cost_crop" ->
             clear_diesel_cost_crop(self, crop, yf)
      [] op = "dyed_diesel_cost_crop" -> dyed_diesel_cost_crop(self, crop)
      [] op = "diesel_cost_crop" -> diesel_cost_crop(self, crop, yf)
      [] op = "gas_electric_cost_crop" ->
             gas_electric_cost_crop(self, crop, yf)
      [] op = "total_variable_cost_crop" ->
             total_variable_cost_crop(self, crop, yf)
      [] op = "payroll_crop" -> payroll_crop(self, crop, yf)
      [] op = "total_overhead_crop" -> total_overhead_crop(self, crop, yf)

\* a Cost per-crop method: the crop test is its first statement, so a crop
\* outside the list raises ValueError with no attribute read
cost_crop_call(self, op, crop, yf) ==
    IF crop \notin cost_crop_list(op)
    THEN [kind |-> "ValueError", reads |-> 0]
    ELSE [kind |-> "ok", val |-> cost_crop_value(self, op, crop, yf)]

\* the per-crop methods of Revenue
RevenueCropOps ==
    {"revenue_uncontracted_crop", "revenue_contracted_crop",
     "total_revenue_crop"}

\* the variant in which total_revenue_crop tests against the corn/soy list
\* of the other two methods
revenue_crop_list_corn_soy(op) == {"corn", "soy"}

\* the list in the method's "if crop not in [...]" test
revenue_crop_list(op) ==
    IF op = "total_revenue_crop" THEN {"corn", "soy", "wheat"}
                                 ELSE {"corn", "soy"}

revenue_crop_value(self, op, crop, pf, yf) ==
    CASE op = "revenue_uncontracted_crop" ->
             revenue_uncontracted_crop(self, crop, pf, yf)
      [] op = "revenue_contracted_crop" -> revenue_contracted_crop(self, crop)
      [] op = "total_revenue_crop" -> total_revenue_crop(self, crop, pf, yf)

\* a Revenue per-crop method: as in Cost, the crop test comes first
revenue_crop_call(self, op, crop, pf, yf) ==
    IF crop \notin revenue_crop_list(op)
    THEN [kind |-> "ValueError", reads |-> 0]
    ELSE [kind |-> "ok", val |-> revenue_crop_value(self, op, crop, pf, yf)]

\* the per-crop methods of GovPmt
GovCropOps ==
    {"assumed_mya_price", "net_payment_acres", "effective_price",
     "effective_ref_rate", "plc_payment_rate1", "max_plc_payment_rate",
     "plc_payment_rate", "farm_plc_yield", "plc_pmt_pre_sequest",
     "arc_bmk_county_revenue", "arc_capped_bmk_revenue", "arc_guar_revenue",
     "county_rma_yield", "actual_crop_revenue", "revenue_shortfall",
     "arc_pmt_rate", "arc_pmt_pre_sequest", "prog_pmt_pre_sequest_crop"}

\* the attribute name c(s, crop) reads
ckey(s, crop) == s \o "_" \o crop

\* The attributes a GovPmt per-crop method reads, in the order in which
\* Python evaluates the method's expression (operands left to right, the
\* condition of "A if cond else B" before the chosen branch).  No method
\* tests its crop argument.
RECURSIVE gov_reads(_, _, _)
gov_reads(self, op, crop) ==
    CASE op = "assumed_mya_price" ->
             <<ckey("fut_price", crop),
               ckey("decrement_from_futures_to_mya", crop)>>
      [] op = "net_payment_acres" ->
             <<"base_to_net_pmt_frac", ckey("farm_base_acres", crop)>>
      [] op = "effective_price" ->
             <<ckey("natl_loan_rate", crop)>>
             \o gov_reads(self, "assumed_mya_price", crop)
      [] op = "effective_ref_rate" ->
             <<ckey("stat_ref_rate_farm_bill", crop),
               ckey("stat_ref_rate_new_escal", crop),
               "rate_cap_factor_new_escal",
               ckey("stat_ref_rate_farm_bill", crop)>>
      [] op = "plc_payment_rate1" ->
             gov_reads(self, "effective_ref_rate", crop)
             \o gov_reads(self, "effective_price", crop)
      [] op = "max_plc_payment_rate" ->
             <<ckey("stat_ref_rate_farm_bill", crop),
               ckey("natl_loan_rate", crop)>>
      [] op = "plc_payment_rate" ->
             gov_reads(self, "plc_payment_rate1", crop)
             \o gov_reads(self, "max_plc_payment_rate", crop)
      [] op = "farm_plc_yield" ->
             <<ckey("farm_plc_bu", crop), ckey("farm_base_acres", crop)>>
      [] op = "plc_pmt_pre_sequest" ->
             gov_reads(self, "plc_payment_rate", crop)
             \o gov_reads(self, "net_payment_acres", crop)
             \o gov_reads(self, "farm_plc_yield", crop)
      [] op = "arc_bmk_county_revenue" ->
             <<ckey("arc_price", crop),
               ckey("arc_yield", crop)>>
      [] op = "arc_capped_bmk_revenue" ->
             gov_reads(self, "arc_bmk_county_revenue", crop)
             \o <<"cap_on_bmk_cty_rev">>
      [] op = "arc_guar_revenue" ->
             gov_reads(self, "arc_bmk_county_revenue", crop)
             \o <<"guar_rev_frac">>
      [] op = "county_rma_yield" -> <<ckey("est_county_yield", crop)>>
      [] op = "actual_crop_revenue" ->
             gov_reads(self, "assumed_mya_price", crop)
             \o <<ckey("natl_loan_rate", crop)>>
             \o gov_reads(self, "county_rma_yield", crop)
      [] op = "revenue_shortfall" ->
             gov_reads(self, "arc_guar_revenue", crop)
             \o gov_reads(self, "actual_crop_revenue", crop)
      [] op = "arc_pmt_rate" ->
             gov_reads(self, "arc_capped_bmk_revenue", crop)
             \o gov_reads(self, "revenue_shortfall", crop)
      [] op = "arc_pmt_pre_sequest" ->
             gov_reads(self, "net_payment_acres", crop)
             \o gov_reads(self, "arc_pmt_rate", crop)
      [] op = "prog_pmt_pre_sequest_crop" ->
             <<ckey("program", crop)>>
             \o (IF ckey("program", crop) \notin DOMAIN self THEN <<>>
                 ELSE IF c(self, "program", crop) = ARC_CO
                      THEN gov_reads(self, "arc_pmt_pre_sequest", crop)
                      ELSE gov_reads(self, "plc_pmt_pre_sequest", crop))

gov_crop_value(self, op, crop, pf, yf) ==
    CASE op = "assumed_mya_price" -> assumed_mya_price(self, crop, pf)
      [] op = "net_payment_acres" -> net_payment_acres(self, crop)
      [] op = "effective_price" -> effective_price(self, crop, pf)
      [] op = "effective_ref_rate" -> effective_ref_rate(self, crop)
      [] op = "plc_payment_rate1" -> plc_payment_rate1(self, crop, pf)
      [] op = "max_plc_payment_rate" -> max_plc_payment_rate(self, crop)
      [] op = "plc_payment_rate" -> plc_payment_rate(self, crop, pf)
      [] op = "farm_plc_yield" -> farm_plc_yield(self, crop)
      [] op = "plc_pmt_pre_sequest" -> plc_pmt_pre_sequest(self, crop, pf)
      [] op = "arc_bmk_county_revenue" -> arc_bmk_county_revenue(self, crop)
      [] op = "arc_capped_bmk_revenue" -> arc_capped_bmk_revenue(self, crop)
      [] op = "arc_guar_revenue" -> arc_guar_revenue(self, crop)
      [] op = "county_rma_yield" -> county_rma_yield(self, crop, yf)
      [] op = "actual_crop_revenue" ->
             actual_crop_revenue(self, crop, pf, yf)
      [] op = "revenue_shortfall" -> revenue_shortfall(self, crop, pf, yf)
      [] op = "arc_pmt_rate" -> arc_pmt_rate(self, crop, pf, yf)
      [] op = "arc_pmt_pre_sequest" ->
             arc_pmt_pre_sequest(self, crop, pf, yf)
      [] op = "prog_pmt_pre_sequest_crop" ->
             prog_pmt_pre_sequest_crop(self, crop, pf, yf)

\* A GovPmt per-crop method: getattr raises AttributeError at the first
\* attribute the instance does not have, after the reads before it; with
\* every attribute present the method returns its value.
gov_crop_call(self, op, crop, pf, yf) ==
    LET rs == gov_reads(self, op, crop)
        missing == {i \in 1..Len(rs) : rs[i] \notin DOMAIN self}
    IN  IF missing # {}
        THEN LET i == CHOOSE j \in missing : \A k \in missing : j <= k
             IN  [kind |-> "AttributeError", reads |-> i - 1, key |-> rs[i]]
        ELSE [kind |-> "ok", val |-> gov_crop_value(self, op, crop, pf, yf)]

\* a GovPmt data file that also carries a county yield for rice
GovDataWithRice ==
    ("est_county_yield_rice" :> I(3)) @@ GovData(I(4), I(8), I(3), I(40))

CallCostCrop(op, crop, yf) ==
    /\ call = NoCall
    /\ call' = [engine |-> "cost", op |-> op, crop |-> crop,
                out |-> cost_crop_call(cst, op, crop, yf)]
    /\ UNCHANGED <<g, cst, rv>>

CallRevenueCrop(op, crop, pf, yf) ==
    /\ call = NoCall
    /\ call' = [engine |-> "revenue", op |-> op, crop |-> crop,
                out |-> revenue_crop_call(rv, op, crop, pf, yf)]
    /\ UNCHANGED <<g, cst, rv>>

CallGovCrop(op, crop, pf, yf) ==
    /\ call = NoCall
    /\ call' = [engine |-> "gov", op |-> op, crop |-> crop,
                out |-> gov_crop_call(g, op, crop, pf, yf)]
    /\ UNCHANGED <<g, cst, rv>>

\* the caller takes the returned value or handles the exception
CropReturn ==
    /\ call # NoCall
    /\ call' = NoCall
    /\ UNCHANGED <<g, cst, rv>>

InitCrop ==
    /\ g \in {GovData(I(4), I(8), I(3), I(40)), GovDataWithRice}
    /\ cst \in {CostData(<<I(2), I(1)>>, I(13), Q(5, 2), I(4), I(10),
                         <<I(4), I(16)>>)}
    /\ rv \in {RevenueData(I(7), I(5), I(25), I(10))}
    /\ call = NoCall
    /\ gret = Idle /\ cres = Idle /\ rret = Idle
    /\ files = Idle /\ inst = Idle

NextCrop ==
    \/ \E op \in CostCropOps, crop \in CropNames :
          CallCostCrop(op, crop, One)
          /\ UNCHANGED <<gret, cres, rret, loadVars>>
    \/ \E op \in RevenueCropOps, crop \in CropNames :
          CallRevenueCrop(op, crop, One, One)
          /\ UNCHANGED <<gret, cres, rret, loadVars>>
    \/ \E op \in GovCropOps, crop \in CropNames :
          CallGovCrop(op, crop, One, One)
          /\ UNCHANGED <<gret, cres, rret, loadVars>>
    \/ CropReturn /\ UNCHANGED <<gret, cres, rret, loadVars>>

SpecCrop == InitCrop /\ [][NextCrop]_vars

----------------------------------------------------------------------------
(* Claims about per-crop operations (checked under SpecCrop)               *)

\* the crops each per-crop operation is defined for
C8_Supported(engine, op) ==
    CASE engine = "gov" -> {"corn", "soy", "wheat"}
      [] engine = "cost" ->
             IF op \in {"proj_yield_farm_crop", "total_variable_cost_crop"}
             THEN {"corn", "soy", "wheat"} ELSE {"corn", "soy"}
      [] engine = "revenue" ->
             IF op = "total_revenue_crop"
             THEN {"corn", "soy", "wheat"} ELSE {"corn", "soy"}

\* the fact names GovPmt composes with a crop
C8_GovCropFacts ==
    {"fut_price", "decrement_from_futures_to_mya", "farm_base_acres",
     "natl_loan_rate", "stat_ref_rate_farm_bill", "stat_ref_rate_new_escal",
     "farm_plc_bu", "arc_price", "arc_yield",
     "est_county_yield", "program"}

\* C8 (as claimed): every per-crop operation of the three engines called
\* with a crop outside its supported set fails with the invalid-crop error
\* (ValueError), raised before any fact is read.
C8_InvalidCropRejected ==
    (call # NoCall /\ call.crop \notin C8_Supported(call.engine, call.op))
        => call.out.kind = "ValueError" /\ call.out.reads = 0

\* C8 (amended): a per-crop operation of Cost or Revenue called with a crop
\* outside its supported set fails with the invalid-crop error before any
\* fact is read, and with a supported crop it returns a value.  A per-crop
\* operation of GovPmt never raises the invalid-crop error: with a crop
\* outside corn/soy/wheat it fails with the missing-fact error
\* (AttributeError) at the first '<name>_<crop>' fact the instance lacks,
\* after net_payment_acres and arc_pmt_pre_sequest have read
\* base_to_net_pmt_frac, and it returns a value when the facts it reads for
\* that crop are all present.
C8_InvalidCropOrMissingFact ==
    call # NoCall =>
        LET unsupported == call.crop \notin C8_Supported(call.engine, call.op)
            out == call.out
        IN  /\ call.engine \in {"cost", "revenue"} =>
                 IF unsupported
                 THEN out.kind = "ValueError" /\ out.reads = 0
                 ELSE out.kind = "ok"
            /\ call.engine = "gov" =>
                 /\ out.kind \in {"ok", "AttributeError"}
                 /\ ~unsupported => out.kind = "ok"
                 /\ out.kind = "AttributeError" =>
                      /\ out.key \notin DOMAIN g
                      /\ \E s \in C8_GovCropFacts :
                            out.key = s \o "_" \o call.crop
                      /\ out.reads
                           = IF call.op \in {"net_payment_acres",
                                             "arc_pmt_pre_sequest"}
                             THEN 1 ELSE 0
                 /\ (unsupported /\ out.kind = "ok") =>
                      /\ call.op = "county_rma_yield"
                      /\ "est_county_yield_" \o call.crop \in DOMAIN g
                 /\ (unsupported
                     /\ \A s \in C8_GovCropFacts :
                           s \o "_" \o call.crop \notin DOMAIN g)
                      => out.kind = "AttributeError"

\* C8 witness: a GovPmt per-crop operation called with a crop outside
\* corn/soy/wheat failed with the missing-fact error after one fact was
\* read.
C8_Witness ==
    /\ call # NoCall
    /\ call.engine = "gov"
    /\ call.crop = "rice"
    /\ call.out.kind = "AttributeError"
    /\ call.out.reads = 1
    /\ call.out.key = "farm_base_acres_rice"

\* a Revenue operation rejected wheat before reading any fact
C8_RevenueRejectsWheat ==
    /\ call # NoCall
    /\ call.engine = "revenue"
    /\ call.crop = "wheat"
    /\ call.out.kind = "ValueError"

----------------------------------------------------------------------------
(* Loading the data files                                                  *)

\* A text is a sequence of one-character strings.  The characters str.strip
\* and str.split take for whitespace, of those that occur in the files:
Whitespace == {" ", "\n"}

\* s.lstrip()
RECURSIVE lstrip(_)
lstrip(s) ==
    IF s # <<>> /\ Head(s) \in Whitespace THEN lstrip(Tail(s)) ELSE s

\* s.rstrip()
RECURSIVE rstrip(_)
rstrip(s) ==
    IF s # <<>> /\ s[Len(s)] \in Whitespace
    THEN rstrip(SubSeq(s, 1, Len(s) - 1))
    ELSE s

\* s.strip()
strip(s) == rstrip(lstrip(s))

\* the number of characters of s before the first one in seps, Len(s) when
\* there is none
Until(s, seps) ==
    LET hits == {i \in 1..Len(s) : s[i] \in seps}
    IN  IF hits = {} THEN Len(s)
        ELSE (CHOOSE i \in hits : \A j \in hits : i <= j) - 1

\* s.split('\n'): the pieces between newlines; one piece, s itself, when s
\* has no newline
RECURSIVE split_newline(_)
split_newline(s) ==
    LET n == Until(s, {"\n"})
    IN  IF n = Len(s) THEN <<s>>
        ELSE <<SubSeq(s, 1, n)>> \o split_newline(SubSeq(s, n + 2, Len(s)))

\* s.split(): the maximal runs of non-whitespace characters
RECURSIVE split(_)
split(s) ==
    LET t == lstrip(s)
        n == Until(t, Whitespace)
    IN  IF t = <<>> THEN <<>>
        ELSE <<SubSeq(t, 1, n)>> \o split(SubSeq(t, n + 1, Len(t)))

\* f.read() of a file given by its lines: the lines with a newline between
\* each two
RECURSIVE read(_)
read(lines) ==
    IF lines = <<>> THEN <<>>
    ELSE IF Len(lines) = 1 THEN lines[1]
    ELSE lines[1] \o <<"\n">> \o read(Tail(lines))

Digit ==
    ("0" :> 0) @@ ("1" :> 1) @@ ("2" :> 2) @@ ("3" :> 3) @@ ("4" :> 4)
    @@ ("5" :> 5) @@ ("6" :> 6) @@ ("7" :> 7) @@ ("8" :> 8) @@ ("9" :> 9)

IsDigits(v) == \A i \in 1..Len(v) : v[i] \in DOMAIN Digit

\* the number a string of digits writes in base ten
RECURSIVE Decimal(_)
Decimal(v) ==
    IF v = <<>> THEN 0
    ELSE 10 * Decimal(SubSeq(v, 1, Len(v) - 1)) + Digit[v[Len(v)]]

RECURSIVE Pow10(_)
Pow10(n) == IF n = 0 THEN 1 ELSE 10 * Pow10(n - 1)

\* float(v) if '.' in v else int(v), for literals written with digits and
\* '.': int(v) wants one or more digits, float(v) digits around a single
\* '.' with a digit on at least one side; anything else raises ValueError
number(v) ==
    IF "." \in {v[i] : i \in 1..Len(v)}
    THEN LET n == Until(v, {"."})
             whole == SubSeq(v, 1, n)
             frac  == SubSeq(v, n + 2, Len(v))
         IN  IF IsDigits(whole) /\ IsDigits(frac) /\ Len(whole) + Len(frac) > 0
             THEN [kind |-> "float",
                   val |-> RAdd(I(Decimal(whole)),
                                Q(Decimal(frac), Pow10(Len(frac))))]
             ELSE [kind |-> "ValueError"]
    ELSE IF v # <<>> /\ IsDigits(v)
         THEN [kind |-> "int", val |-> I(Decimal(v))]
         ELSE [kind |-> "ValueError"]

\* GovPmt._load_textfile: every line is stripped, then the empty lines and
\* the lines that begin with '#' are dropped
_load_textfile(lines) ==
    LET ls == split_newline(strip(read(lines)))
        stripped == [i \in 1..Len(ls) |-> strip(ls[i])]
        kept == SelectSeq(stripped, LAMBDA line : Len(line) > 0 /\ line[1] # "#")
    IN  [i \in 1..Len(kept) |-> split(kept[i])]

\* GovPmt._load_required_data: the farm pairs, then the gov_pmt pairs
_load_required_data(fs) ==
    _load_textfile(fs.farm) \o _load_textfile(fs.domain)

\* Cost.load_for_crop_year and Revenue.load_for_crop_year: the empty lines
\* and the lines that begin with '#' are dropped as they stand in the file,
\* and the lines kept are stripped afterwards
load_for_crop_year(fs) ==
    LET ls == split_newline(strip(read(fs.domain)))
        kept == SelectSeq(ls, LAMBDA line : line # <<>> /\ line[1] # "#")
    IN  [i \in 1..Len(kept) |-> split(strip(kept[i]))]

\* the variant of setattr that keeps an attribute the object already has
setattr_keep_first(attrs, k, v) == attrs @@ (k :> v)

\* setattr(self, k, v): the attribute is created or overwritten
setattr(attrs, k, v) == (k :> v) @@ attrs

\* for k, v in data: setattr(self, k, float(v) if '.' in v else int(v)),
\* from item i on.  An item that is not a pair, or a value that is not a
\* number, raises ValueError and ends the construction; sets lists the
\* setattr calls made.
RECURSIVE set_all(_, _, _, _)
set_all(data, i, attrs, sets) ==
    IF i > Len(data) THEN [kind |-> "ok", attrs |-> attrs, sets |-> sets]
    ELSE IF Len(data[i]) # 2
         THEN [kind |-> "ValueError", why |-> "unpack", sets |-> sets]
         ELSE LET k == data[i][1]
                  v == number(data[i][2])
              IN  IF v.kind = "ValueError"
                  THEN [kind |-> "ValueError", why |-> "number", sets |-> sets]
                  ELSE set_all(data, i + 1, setattr(attrs, k, v),
                               sets \o <<(<<k, v>>)>>)

\* __init__ of the three engines
__init__(data) == set_all(data, 1, <<>>, <<>>)

\* the lines of the data files: facts a and b, a blank line, a line of
\* blanks, a comment and an indented comment
FarmLines == {<<"a", " ", "1">>, <<"#", " ", "c">>}

DomainLines ==
    {<<"a", " ", "2">>, <<"a", " ", "1", ".", "5">>, <<"b", " ", "3">>,
     <<>>, <<" ", " ">>, <<"#", " ", "c">>, <<" ", "#", " ", "c">>}

MaxFarmLines == 1
MaxDomainLines == 3

\* the sequences of at most n members of S
SeqsUpTo(S, n) == UNION {[1..k -> S] : k \in 0..n}

\* no constructor called
NoInst == [engine |-> "none"]

\* GovPmt(year)
NewGovPmt ==
    /\ inst = NoInst
    /\ inst' = [engine |-> "gov", out |-> __init__(_load_required_data(files))]
    /\ UNCHANGED files

\* Cost(year)
NewCost ==
    /\ inst = NoInst
    /\ inst' = [engine |-> "cost", out |-> __init__(load_for_crop_year(files))]
    /\ UNCHANGED files

\* Revenue(year)
NewRevenue ==
    /\ inst = NoInst
    /\ inst' = [engine |-> "revenue",
                out |-> __init__(load_for_crop_year(files))]
    /\ UNCHANGED files

\* the caller drops the instance, or has handled the exception
DropInstance ==
    /\ inst # NoInst
    /\ inst' = NoInst
    /\ UNCHANGED files

InitLoad ==
    /\ files \in [farm : SeqsUpTo(FarmLines, MaxFarmLines),
                  domain : SeqsUpTo(DomainLines, MaxDomainLines)]
    /\ inst = NoInst
    /\ g = Idle /\ gret = Idle /\ cst = Idle /\ cres = Idle
    /\ rv = Idle /\ rret = Idle /\ call = Idle

NextLoad ==
    \/ NewGovPmt /\ UNCHANGED <<govVars, costVars, revVars, call>>
    \/ NewCost /\ UNCHANGED <<govVars, costVars, revVars, call>>
    \/ NewRevenue /\ UNCHANGED <<govVars, costVars, revVars, call>>
    \/ DropInstance /\ UNCHANGED <<govVars, costVars, revVars, call>>

SpecLoad == InitLoad /\ [][NextLoad]_vars

----------------------------------------------------------------------------
(* Claims about loading (checked under SpecLoad)                           *)

\* the lines the engine's constructor reads, in load order
C9_SourceLines ==
    IF inst.engine = "gov" THEN files.farm \o files.domain ELSE files.domain

\* a blank line: empty or blanks only
C9_IsBlankLine(line) == \A i \in 1..Len(line) : line[i] = " "

\* a comment line: its first non-blank character is '#'
C9_IsCommentLine(line) ==
    \E i \in 1..Len(line) :
        line[i] = "#" /\ \A j \in 1..(i - 1) : line[j] = " "

\* the lines that are neither blank nor comments
C9_FactLines(lines) ==
    SelectSeq(lines, LAMBDA line : ~C9_IsBlankLine(line) /\ ~C9_IsCommentLine(line))

\* the fact of a line '<name> <value>' whose name is one character
C9_FactOf(line) == <<SubSeq(line, 1, 1), number(SubSeq(line, 3, Len(line)))>>

\* C9: whatever the engine, construction succeeds and sets exactly one fact
\* for every line that is neither blank nor a comment, in file order; blank
\* lines and comment lines contribute no fact and no error.
C9_BlankAndCommentSkipped ==
    inst # NoInst =>
        /\ inst.out.kind = "ok"
        /\ inst.out.sets
             = [i \in 1..Len(C9_FactLines(C9_SourceLines)) |->
                    C9_FactOf(C9_FactLines(C9_SourceLines)[i])]

\* the part of C9 that holds: the GovPmt loader skips every blank and
\* comment line
C9_GovPmtSkips ==
    (inst # NoInst /\ inst.engine = "gov") =>
        /\ inst.out.kind = "ok"
        /\ inst.out.sets
             = [i \in 1..Len(C9_FactLines(C9_SourceLines)) |->
                    C9_FactOf(C9_FactLines(C9_SourceLines)[i])]

\* a Cost or Revenue construction failed on a file all of whose lines are
\* facts, blank lines or comments
C9_CostFailsOnBlankLine ==
    /\ inst # NoInst
    /\ inst.engine = "cost"
    /\ inst.out.kind = "ValueError"
    /\ \E i \in 1..Len(files.domain) : files.domain[i] = <<" ", " ">>

\* the values given to fact name k, in load order
C10_ValuesOf(k) ==
    LET facts == C9_FactLines(C9_SourceLines)
        mine == SelectSeq(facts, LAMBDA line : C9_FactOf(line)[1] = k)
    IN  [i \in 1..Len(mine) |-> C9_FactOf(mine[i])[2]]

\* the fact names of the lines loaded
C10_NamesLoaded ==
    {C9_FactOf(C9_FactLines(C9_SourceLines)[i])[1] :
        i \in 1..Len(C9_FactLines(C9_SourceLines))}

\* C10 (as claimed): after a successful construction every fact has the
\* value that was loaded first for its name; a later duplicate never
\* overwrites it.
C10_FirstValueKept ==
    (inst # NoInst /\ inst.out.kind = "ok") =>
        /\ DOMAIN inst.out.attrs = C10_NamesLoaded
        /\ \A k \in C10_NamesLoaded : inst.out.attrs[k] = C10_ValuesOf(k)[1]

\* C10 (amended): after a successful construction every fact has the value
\* that was loaded last for its name: a later duplicate overwrites the
\* earlier value, so a domain fact overrides the farm fact of the same
\* name.
C10_LastValueKept ==
    (inst # NoInst /\ inst.out.kind = "ok") =>
        /\ DOMAIN inst.out.attrs = C10_NamesLoaded
        /\ \A k \in C10_NamesLoaded :
              inst.out.attrs[k] = C10_ValuesOf(k)[Len(C10_ValuesOf(k))]

\* C10 witness: GovPmt was constructed from a farm file that gives a the
\* value 1 and a domain file that gives it another value, and a has the
\* domain file's value.
C10_Witness ==
    /\ inst # NoInst
    /\ inst.engine = "gov"
    /\ inst.out.kind = "ok"
    /\ files.farm = <<(<<"a", " ", "1">>)>>
    /\ Len(C10_ValuesOf(<<"a">>)) = 2
    /\ C10_ValuesOf(<<"a">>)[1] # C10_ValuesOf(<<"a">>)[2]
    /\ inst.out.attrs[<<"a">>] = C10_ValuesOf(<<"a">>)[2]

----------------------------------------------------------------------------
(* The three engines under repeated calls                                  *)

\* the factors passed in repeated calls
PureFactors == {Q(1, 2), One}

\* how many different calls the caller keeps the results of
MaxRemembered == 2

GovComputeOps == {"total_gov_pmt", "prog_pmt_pre_sequest"}
CostComputeOps == {"total_cost", "total_variable_cost"}
RevenueComputeOps == {"total_revenue", "revenue_uncontracted"}

gov_compute(self, op, pf, yf) ==
    CASE op = "total_gov_pmt" -> I(total_gov_pmt(self, pf, yf))
      [] op = "prog_pmt_pre_sequest" -> prog_pmt_pre_sequest(self, pf, yf)

cost_compute(self, op, yf) ==
    CASE op = "total_cost" -> total_cost(self, yf)
      [] op = "total_variable_cost" -> total_variable_cost(self, yf)

revenue_compute(self, op, pf, yf) ==
    CASE op = "total_revenue" -> total_revenue(self, pf, yf)
      [] op = "revenue_uncontracted" -> revenue_uncontracted(self, pf, yf)

\* no call made, or the results forgotten
NoResults == <<>>

\* the caller notes what the call k returned and how often it was made
Noted(k, val) ==
    (k :> [val |-> val,
           n |-> IF k \in DOMAIN call THEN 2 ELSE 1]) @@ call

\* the caller keeps the results of at most MaxRemembered different calls
CanNote(k) == k \in DOMAIN call \/ Cardinality(DOMAIN call) < MaxRemembered

\* a computing method of GovPmt: it assigns no attribute
ComputeGov(op, pf, yf) ==
    /\ CanNote(<<"gov", op, pf, yf>>)
    /\ call' = Noted(<<"gov", op, pf, yf>>, gov_compute(g, op, pf, yf))
    /\ UNCHANGED <<g, cst, rv>>

\* a computing method of Cost: it assigns no attribute
ComputeCost(op, yf) ==
    /\ CanNote(<<"cost", op, yf>>)
    /\ call' = Noted(<<"cost", op, yf>>, cost_compute(cst, op, yf))
    /\ UNCHANGED <<g, cst, rv>>

\* a computing method of Revenue: it assigns no attribute
ComputeRevenue(op, pf, yf) ==
    /\ CanNote(<<"revenue", op, pf, yf>>)
    /\ call' = Noted(<<"revenue", op, pf, yf>>,
                     revenue_compute(rv, op, pf, yf))
    /\ UNCHANGED <<g, cst, rv>>

\* the caller forgets the results
ForgetResults ==
    /\ call # NoResults
    /\ call' = NoResults
    /\ UNCHANGED <<g, cst, rv>>

InitPure ==
    /\ g \in {GovData(I(4), I(8), lw, Q(81, 2)) : lw \in {I(3), I(7)}}
    /\ cst \in {CostData(<<I(2), I(1)>>, Q(25, 2), Q(5, 2), I(4), I(10),
                         <<I(4), I(16)>>)}
    /\ rv \in {RevenueData(I(7), I(5), I(25), I(10))}
    /\ call = NoResults
    /\ gret = Idle /\ cres = Idle /\ rret = Idle
    /\ files = Idle /\ inst = Idle

NextPure ==
    \/ \E op \in GovComputeOps, pf \in PureFactors, yf \in PureFactors :
          ComputeGov(op, pf, yf) /\ UNCHANGED <<gret, cres, rret, loadVars>>
    \/ \E op \in CostComputeOps, yf \in PureFactors :
          ComputeCost(op, yf) /\ UNCHANGED <<gret, cres, rret, loadVars>>
    \/ \E op \in RevenueComputeOps, pf \in PureFactors, yf \in PureFactors :
          ComputeRevenue(op, pf, yf) /\ UNCHANGED <<gret, cres, rret, loadVars>>
    \/ ForgetResults /\ UNCHANGED <<gret, cres, rret, loadVars>>

SpecPure == InitPure /\ [][NextPure]_vars

----------------------------------------------------------------------------
(* Claims about repeated calls (checked under SpecPure)                    *)

----------------------------------------------------------------------------
(* Module sensitivity                                                      *)

\* "40 55 70 80 90 95 100 105".split() and
\* "60 75 90 95 100 105 110 125 140 165 180".split(), as the integers the
\* strings write
yield_pct_strs == <<40, 55, 70, 80, 90, 95, 100, 105>>
price_pct_strs == <<60, 75, 90, 95, 100, 105, 110, 125, 140, 165, 180>>

\* [p+'%' for p in ...]
yield_pct_labels ==
    [i \in 1..Len(yield_pct_strs) |-> ToString(yield_pct_strs[i]) \o "%"]
price_pct_labels ==
    [i \in 1..Len(price_pct_strs) |-> ToString(price_pct_strs[i]) \o "%"]

\* [int(p)/100 for p in ...]
yield_pcts == [i \in 1..Len(yield_pct_strs) |-> Q(yield_pct_strs[i], 100)]
price_pcts == [i \in 1..Len(price_pct_strs) |-> Q(price_pct_strs[i], 100)]

ny == Len(yield_pcts)

\* the cells of a table: a string, an int or a float
StrCell(s) == [str |-> s]
IntCell(n) == [int |-> n]
FloatCell(q) == [float |-> q]

RECURSIVE Pow(_, _)
Pow(b, n) == IF n = 0 THEN 1 ELSE b * Pow(b, n - 1)

\* round(x, ndigits): the nearest multiple of 10^-ndigits, a tie to the even
\* one
PyRoundN(x, ndigits) ==
    Q(PyRound(RMul(x, I(Pow(10, ndigits)))), Pow(10, ndigits))

\* ['']*n
Blanks(n) == [j \in 1..n |-> StrCell("")]

\* table[r][c] = v, rows and columns counted from 0
SetCell(table, row, col, v) == [table EXCEPT ![row + 1][col + 1] = v]

\* the variant of the header text without the '%' corner
header_text_no_corner(table) ==
    LET t1 == SetCell(table, 0, 0, StrCell("REVENUE"))
        t2 == SetCell(t1, 0, 1, StrCell("Yield"))
        t3 == SetCell(t2, 1, 0, StrCell("Price"))
        t4 == SetCell(t3, 0, 2, StrCell("Corn"))
        t5 == SetCell(t4, 1, 2, StrCell("Beans"))
        t6 == SetCell(t5, 2, 0, StrCell("Corn"))
    IN  SetCell(t6, 2, 1, StrCell("Beans"))

\* setup_table, "add header text": eight assignments; table[1][1] is not
\* among them, and the text of table[0][0] does not come from title
header_text(table) ==
    LET t1 == SetCell(table, 0, 0, StrCell("REVENUE"))
        t2 == SetCell(t1, 0, 1, StrCell("Yield"))
        t3 == SetCell(t2, 1, 0, StrCell("Price"))
        t4 == SetCell(t3, 0, 2, StrCell("Corn"))
        t5 == SetCell(t4, 1, 2, StrCell("Beans"))
        t6 == SetCell(t5, 2, 0, StrCell("Corn"))
        t7 == SetCell(t6, 2, 1, StrCell("Beans"))
    IN  SetCell(t7, 2, 2, StrCell("%"))

\* setup_table, "Row headers at left": for i, p in enumerate(price_pcts),
\* the three cells at the left of row 3+i are assigned; each turn of the
\* loop assigns in a row of its own
row_headers(table, r) ==
    [row \in 1..Len(table) |->
        IF row - 4 \in 0..(Len(price_pcts) - 1)
        THEN LET i == row - 4
                 p == price_pcts[i + 1]
             IN  [table[row] EXCEPT
                    ![1] = FloatCell(PyRoundN(
                              RMul(p, r["fall_futures_price_corn"]), 2)),
                    ![2] = FloatCell(PyRoundN(
                              RMul(p, r["fall_futures_price_soy"]), 2)),
                    ![3] = StrCell(price_pct_labels[i + 1])]
        ELSE table[row]]

\* what the loop "Column headers along top" assigns to table[row][3+i]
column_header(r, row, i) ==
    LET p == yield_pcts[i + 1]
    IN  CASE row = 0 ->
                 FloatCell(PyRoundN(RMul(p, r["proj_yield_farm_corn"]), 1))
          [] row = 1 ->
                 FloatCell(PyRoundN(RMul(p, projected_yield_soy(r)), 1))
          [] row = 2 -> StrCell(yield_pct_labels[i + 1])

\* setup_table, "Column headers along top": for i, p in
\* enumerate(yield_pcts), the cells at column 3+i of the rows 0, 1 and 2 are
\* assigned; each turn of the loop assigns in a column of its own
column_headers(table, r) ==
    [row \in 1..Len(table) |->
        IF row <= 3
        THEN [col \in 1..Len(table[row]) |->
                IF col - 4 \in 0..(Len(yield_pcts) - 1)
                THEN column_header(r, row - 1, col - 4)
                ELSE table[row][col]]
        ELSE table[row]]

setup_table(data, r, title) ==
    LET table == <<Blanks(3 + ny)>> \o <<Blanks(3 + ny)>> \o <<Blanks(3 + ny)>>
                 \o data
    IN  column_headers(row_headers(header_text(table), r), r)

\* round(total/1000)
thousands(total) == IntCell(PyRound(RDiv(total, I(1000))))

\* the variant of the revenue data with price and yield exchanged
revenue_data_swapped(r) ==
    [i \in 1..Len(price_pcts) |->
        Blanks(3) \o [j \in 1..Len(yield_pcts) |->
            thousands(total_revenue(r, yield_pcts[j], price_pcts[i]))]]

\* sens_revenue: [['']*3 + [round(r.total_revenue(p, y)/1000) for y in
\* yield_pcts] for p in price_pcts]
revenue_data(r) ==
    [i \in 1..Len(price_pcts) |->
        Blanks(3) \o [j \in 1..Len(yield_pcts) |->
            thousands(total_revenue(r, price_pcts[i], yield_pcts[j]))]]

\* sens_cost: [['']*3 + [round(c.total_cost(y)/1000) for y in yield_pcts]
\* for p in price_pcts]
cost_data(cc) ==
    [i \in 1..Len(price_pcts) |->
        Blanks(3) \o [j \in 1..Len(yield_pcts) |->
            thousands(total_cost(cc, yield_pcts[j]))]]

\* sens_gov_pmt: [['']*3 + [round(g.total_gov_pmt(p, y)/1000) for y in
\* yield_pcts] for p in price_pcts]
gov_pmt_data(gg) ==
    [i \in 1..Len(price_pcts) |->
        Blanks(3) \o [j \in 1..Len(yield_pcts) |->
            thousands(I(total_gov_pmt(gg, price_pcts[i], yield_pcts[j])))]]

\* the instance with the attributes in names multiplied by k
Times(self, names, k) ==
    [a \in DOMAIN self |-> IF a \in names THEN RMul(self[a], I(k)) ELSE self[a]]

\* the attributes of Revenue that are acres, bushels and dollars
RevenueAmounts ==
    {"acres_corn", "acres_soy", "acres_wheat_dc_soy", "contract_bu_corn",
     "contract_bu_soy", "revenue_wheat", "ppp_loan_forgive_corn",
     "ppp_loan_forgive_soy", "mfp_cfap_corn", "mfp_cfap_soy",
     "rental_revenue_corn", "rental_revenue_soy", "other_revenue_corn",
     "other_revenue_soy"}

\* the attributes of Cost that are rates, yields and shares
CostRates ==
    {"proj_yield_farm_dc_soy", "proj_yield_farm_full_soy",
     "proj_yield_farm_corn", "proj_yield_farm_wheat", "yield_2018_corn",
     "yield_2018_soy", "clear_gpa_2018", "clear_diesel_price",
     "dyed_gpa_2018", "dyed_diesel_price", "est_haul_alloc",
     "fuel_alloc_corn", "fuel_alloc_soy", "payroll_pct_ot",
     "payroll_alloc_corn", "payroll_alloc_soy"}

\* the attributes of GovPmt that are acres, bushels and dollars
GovAmounts ==
    {"farm_base_acres_corn", "farm_base_acres_soy", "farm_base_acres_wheat",
     "farm_plc_bu_corn", "farm_plc_bu_soy", "farm_plc_bu_wheat",
     "fsa_pmt_cap"}

\* Revenue data files of a farm of some thousand acres, with a corn futures
\* price and a corn yield that have more decimals than the headers show, and
\* a soy yield whose multiples by the yield percentages are no ties of
\* round(x, 1)
SensRevenueData ==
    {("fall_futures_price_corn" :> price) @@ ("proj_yield_farm_corn" :> yld)
     @@ ("proj_yield_farm_full_soy" :> I(6))
     @@ Times(RevenueData(cbu, I(5), I(25), I(10)), RevenueAmounts, 1000) :
        price \in {I(4), Q(65, 16)}, yld \in {I(4), Q(17, 4)},
        cbu \in {I(0), I(7)}}

SensCostData ==
    {Times(CostData(<<I(2), I(1)>>, cur, Q(5, 2), haul, I(10),
                    <<I(4), I(16)>>),
           DOMAIN CostData(<<I(2), I(1)>>, cur, Q(5, 2), haul, I(10),
                           <<I(4), I(16)>>) \ CostRates, 1000) :
        cur \in {Q(25, 2), I(13)}, haul \in {Q(1, 4), I(4)}}

SensGovData ==
    {Times(GovData(fc, I(8), I(3), cap), GovAmounts, 1000) :
        fc \in {I(4), I(6)}, cap \in {I(40), Q(163, 4)}}

\* no report printed
NoReport == [report |-> "none"]

\* sens_revenue(crop_year): the table handed to tabulate
sens_revenue ==
    /\ call = NoReport
    /\ call' = [report |-> "revenue",
                table |-> setup_table(revenue_data(rv), rv, "REVENUE")]
    /\ UNCHANGED <<g, cst, rv>>

\* sens_cost(crop_year)
sens_cost ==
    /\ call = NoReport
    /\ call' = [report |-> "cost",
                table |-> setup_table(cost_data(cst), rv, "COST")]
    /\ UNCHANGED <<g, cst, rv>>

\* sens_gov_pmt(crop_year)
sens_gov_pmt ==
    /\ call = NoReport
    /\ call' = [report |-> "gov_pmt",
                table |-> setup_table(gov_pmt_data(g), rv, "GOV_PMT")]
    /\ UNCHANGED <<g, cst, rv>>

\* the report has been printed
ReportDone ==
    /\ call # NoReport
    /\ call' = NoReport
    /\ UNCHANGED <<g, cst, rv>>

InitSens ==
    /\ rv \in SensRevenueData
    /\ cst \in SensCostData
    /\ g \in SensGovData
    /\ call = NoReport
    /\ gret = Idle /\ cres = Idle /\ rret = Idle
    /\ files = Idle /\ inst = Idle

NextSens ==
    \/ sens_revenue /\ UNCHANGED <<gret, cres, rret, loadVars>>
    \/ sens_cost /\ UNCHANGED <<gret, cres, rret, loadVars>>
    \/ sens_gov_pmt /\ UNCHANGED <<gret, cres, rret, loadVars>>
    \/ ReportDone /\ UNCHANGED <<gret, cres, rret, loadVars>>

SpecSens == InitSens /\ [][NextSens]_vars

----------------------------------------------------------------------------
(* Claims about the sensitivity reports                                    *)

\* the positions of a table, rows and columns counted from 1
C12_Rows == 1..(Len(price_pcts) + 3)
C12_Cols == 1..(Len(yield_pcts) + 3)

\* the table has len(price_pcts) + 3 rows of len(yield_pcts) + 3 columns
C12_Shape(table) ==
    /\ DOMAIN table = C12_Rows
    /\ \A row \in C12_Rows : DOMAIN table[row] = C12_Cols

\* the cell holds a number
C12_IsNumber(cell) == DOMAIN cell \in {{"int"}, {"float"}}

\* every cell of the numeric region holds a number
C12_NumericRegion(table) ==
    \A row \in C12_Rows, col \in C12_Cols :
        (row > 3 /\ col > 3) => C12_IsNumber(table[row][col])

\* the cells of the three header rows and of the three header columns
C12_HeaderCells ==
    {<<row, col>> \in C12_Rows \X C12_Cols : row <= 3 \/ col <= 3}

\* C12 as stated: the table of a report has len(price_pcts) + 3 rows of
\* len(yield_pcts) + 3 columns, every cell of the header rows and header
\* columns is non-empty and every cell of the numeric region is a number
C12_GridAllHeadersPopulated ==
    call # NoReport =>
        /\ C12_Shape(call.table)
        /\ \A rc \in C12_HeaderCells : call.table[rc[1]][rc[2]] # StrCell("")
        /\ C12_NumericRegion(call.table)

\* C12, amended: the table of a report has len(price_pcts) + 3 rows of
\* len(yield_pcts) + 3 columns, every cell of the numeric region is a number,
\* and every cell of the header rows and header columns is non-empty except
\* the one in the second row and second column, which is the empty string
C12_GridHeadersButOnePopulated ==
    call # NoReport =>
        /\ C12_Shape(call.table)
        /\ \A rc \in C12_HeaderCells \ {<<2, 2>>} :
              call.table[rc[1]][rc[2]] # StrCell("")
        /\ call.table[2][2] = StrCell("")
        /\ C12_NumericRegion(call.table)

\* a cost report has been built: its corner holds '%' and its last cell a
\* number
C12_Witness ==
    /\ call # NoReport
    /\ call.report = "cost"
    /\ call.table[3][3] = StrCell("%")
    /\ C12_IsNumber(call.table[Len(price_pcts) + 3][Len(yield_pcts) + 3])

\* the total of the engine of the report at price_pcts[i], yield_pcts[j]
C13_Total(i, j) ==
    CASE call.report = "revenue" ->
             total_revenue(rv, price_pcts[i], yield_pcts[j])
      [] call.report = "cost" -> total_cost(cst, yield_pcts[j])
      [] call.report = "gov_pmt" ->
             I(total_gov_pmt(g, price_pcts[i], yield_pcts[j]))

\* the numeric cell at row 3+i, column 3+j is round(T(p_i, y_j) / 1000)
C13_Cells ==
    \A i \in 1..Len(price_pcts), j \in 1..Len(yield_pcts) :
        call.table[3 + i][3 + j] = thousands(C13_Total(i, j))

\* the price of a row header and the yield of a column header, before any
\* rounding
C13_RowPrice(i, col) ==
    RMul(price_pcts[i], IF col = 1 THEN rv["fall_futures_price_corn"]
                        ELSE rv["fall_futures_price_soy"])
C13_ColYield(row, j) ==
    RMul(yield_pcts[j], IF row = 1 THEN rv["proj_yield_farm_corn"]
                        ELSE projected_yield_soy(rv))

\* C13 as stated: every numeric cell is round(T(p_i, y_j) / 1000) with the
\* price along the rows and the yield along the columns, the row headers are
\* price_pcts[i] times the corn and soy prices, the column headers are
\* yield_pcts[j] times the corn and soy yields, and all rows of the cost
\* grid are identical
C13_GridAsStated ==
    call # NoReport =>
        /\ C13_Cells
        /\ \A i \in 1..Len(price_pcts), col \in 1..2 :
              call.table[3 + i][col] = FloatCell(C13_RowPrice(i, col))
        /\ \A row \in 1..2, j \in 1..Len(yield_pcts) :
              call.table[row][3 + j] = FloatCell(C13_ColYield(row, j))
        /\ call.report = "cost" =>
              \A i, k \in 1..Len(price_pcts) :
                  call.table[3 + i] = call.table[3 + k]

\* C13, amended: every numeric cell is round(T(p_i, y_j) / 1000) with the
\* price along the rows and the yield along the columns, the row headers are
\* price_pcts[i] times the corn and soy prices rounded to 2 decimals, the
\* column headers are yield_pcts[j] times the corn and soy yields rounded to
\* 1 decimal, and the rows of the cost grid are identical in the numeric
\* region
C13_GridRoundedHeaders ==
    call # NoReport =>
        /\ C13_Cells
        /\ \A i \in 1..Len(price_pcts), col \in 1..2 :
              call.table[3 + i][col] =
                  FloatCell(PyRoundN(C13_RowPrice(i, col), 2))
        /\ \A row \in 1..2, j \in 1..Len(yield_pcts) :
              call.table[row][3 + j] =
                  FloatCell(PyRoundN(C13_ColYield(row, j), 1))
        /\ call.report = "cost" =>
              \A i, k \in 1..Len(price_pcts), j \in 1..Len(yield_pcts) :
                  call.table[3 + i][3 + j] = call.table[3 + k][3 + j]

\* a revenue report whose cell for 60% price and 55% yield is not the one
\* for 55% price and 60% yield, and whose first row header is a rounded price
C13_Witness ==
    /\ call # NoReport
    /\ call.report = "revenue"
    /\ call.table[4][5] #
          thousands(total_revenue(rv, yield_pcts[2], price_pcts[1]))
    /\ call.table[4][1] # FloatCell(C13_RowPrice(1, 1))

----------------------------------------------------------------------------
(* Calls of the three totals with positional and keyword arguments         *)

\* def total_cost(self, yield_factor=1)
total_cost_params == <<"yield_factor">>

\* def total_revenue(self, price_factor=1, yield_factor=1)
total_revenue_params == <<"price_factor", "yield_factor">>

\* def total_gov_pmt(self, pf=1, yf=1)
total_gov_pmt_params == <<"pf", "yf">>

\* the default of every factor parameter: =1
factor_default == One

\* the keywords a caller writes
KeywordNames == {"pf", "yf", "price_factor", "yield_factor"}

\* the factors a caller passes
CallFactors == {Q(1, 2), One, I(2)}

\* the most positional and keyword arguments in one call
MaxArgs == 2
MaxKeywords == 2

\* the keyword arguments of a call: values under at most MaxKeywords names
KeywordArgs ==
    UNION {[names -> CallFactors] :
              names \in {n \in SUBSET KeywordNames :
                            Cardinality(n) <= MaxKeywords}}

\* the position of a name among the parameters, 0 when it is none of them
ParamIndex(params, name) ==
    IF \E i \in 1..Len(params) : params[i] = name
    THEN CHOOSE i \in 1..Len(params) : params[i] = name
    ELSE 0

\* the call cannot be bound: too many positional arguments, a keyword that
\* is no parameter, or a keyword for a parameter given by position
bind_fails(params, args, kwargs) ==
    \/ Len(args) > Len(params)
    \/ \E k \in DOMAIN kwargs : ParamIndex(params, k) = 0
    \/ \E k \in DOMAIN kwargs : ParamIndex(params, k) \in 1..Len(args)

\* the values of the parameters: by position, else by keyword, else the
\* default
bind(params, args, kwargs) ==
    [i \in 1..Len(params) |->
        IF i <= Len(args) THEN args[i]
        ELSE IF params[i] \in DOMAIN kwargs THEN kwargs[params[i]]
        ELSE factor_default]

\* what a call gives back
Returned(v) == [val |-> v]
Raised(e) == [raised |-> e]

\* c.total_cost(*args, **kwargs)
total_cost_call(self, args, kwargs) ==
    IF bind_fails(total_cost_params, args, kwargs) THEN Raised("TypeError")
    ELSE LET b == bind(total_cost_params, args, kwargs)
         IN  Returned(total_cost(self, b[1]))

\* rev.total_revenue(*args, **kwargs)
total_revenue_call(self, args, kwargs) ==
    IF bind_fails(total_revenue_params, args, kwargs)
    THEN Raised("TypeError")
    ELSE LET b == bind(total_revenue_params, args, kwargs)
         IN  Returned(total_revenue(self, b[1], b[2]))

\* g.total_gov_pmt(*args, **kwargs)
total_gov_pmt_call(self, args, kwargs) ==
    IF bind_fails(total_gov_pmt_params, args, kwargs)
    THEN Raised("TypeError")
    ELSE LET b == bind(total_gov_pmt_params, args, kwargs)
         IN  Returned(I(total_gov_pmt(self, b[1], b[2])))

\* no call under way
NoKwCall == [method |-> "none"]

CallTotalCostKw(args, kwargs) ==
    /\ call = NoKwCall
    /\ call' = [method |-> "total_cost", args |-> args, kwargs |-> kwargs,
                ret |-> total_cost_call(cst, args, kwargs)]
    /\ UNCHANGED <<g, cst, rv>>

CallTotalRevenueKw(args, kwargs) ==
    /\ call = NoKwCall
    /\ call' = [method |-> "total_revenue", args |-> args,
                kwargs |-> kwargs,
                ret |-> total_revenue_call(rv, args, kwargs)]
    /\ UNCHANGED <<g, cst, rv>>

CallTotalGovPmtKw(args, kwargs) ==
    /\ call = NoKwCall
    /\ call' = [method |-> "total_gov_pmt", args |-> args,
                kwargs |-> kwargs,
                ret |-> total_gov_pmt_call(g, args, kwargs)]
    /\ UNCHANGED <<g, cst, rv>>

\* the caller has its answer
CallDone ==
    /\ call # NoKwCall
    /\ call' = NoKwCall
    /\ UNCHANGED <<g, cst, rv>>

InitCall ==
    /\ g \in {GovData(I(4), I(8), lw, Q(81, 2)) : lw \in {I(3), I(7)}}
    /\ cst \in {CostData(<<I(2), I(1)>>, Q(25, 2), Q(5, 2), I(4), I(10),
                         <<I(4), I(16)>>)}
    /\ rv \in {RevenueData(I(7), I(5), I(25), I(10))}
    /\ call = NoKwCall
    /\ gret = Idle /\ cres = Idle /\ rret = Idle
    /\ files = Idle /\ inst = Idle

NextCall ==
    \/ \E args \in SeqsUpTo(CallFactors, MaxArgs), kwargs \in KeywordArgs :
          CallTotalCostKw(args, kwargs)
          /\ UNCHANGED <<gret, cres, rret, loadVars>>
    \/ \E args \in SeqsUpTo(CallFactors, MaxArgs), kwargs \in KeywordArgs :
          CallTotalRevenueKw(args, kwargs)
          /\ UNCHANGED <<gret, cres, rret, loadVars>>
    \/ \E args \in SeqsUpTo(CallFactors, MaxArgs), kwargs \in KeywordArgs :
          CallTotalGovPmtKw(args, kwargs)
          /\ UNCHANGED <<gret, cres, rret, loadVars>>
    \/ CallDone /\ UNCHANGED <<gret, cres, rret, loadVars>>

SpecCall == InitCall /\ [][NextCall]_vars

----------------------------------------------------------------------------
(* Claims about the arguments of the totals (checked under SpecCall)       *)

\* the factor a call passes under the keyword k, 1 when it passes none
C14_Factor(k) ==
    IF k \in DOMAIN call.kwargs THEN call.kwargs[k] ELSE One

\* the total of the engine of the call at the factors pf, yf
C14_Total(pf, yf) ==
    CASE call.method = "total_cost" -> total_cost(cst, yf)
      [] call.method = "total_revenue" -> total_revenue(rv, pf, yf)
      [] call.method = "total_gov_pmt" -> I(total_gov_pmt(g, pf, yf))

\* the positional factors of the call, 1 for each one left out
C14_Positional ==
    [i \in 1..2 |-> IF i <= Len(call.args) THEN call.args[i] ELSE One]

\* a call with no keywords and no more positional arguments than the method
\* has factors returns the total with 1 for each factor left out
C14_OmittedDefaultsToOne ==
    (/\ call # NoKwCall
     /\ DOMAIN call.kwargs = {}
     /\ Len(call.args) <= (IF call.method = "total_cost" THEN 1 ELSE 2))
    => call.ret =
          Returned(IF call.method = "total_cost"
                   THEN total_cost(cst, C14_Positional[1])
                   ELSE C14_Total(C14_Positional[1], C14_Positional[2]))

\* total_gov_pmt takes the keywords pf and yf
C14_GovPmtTakesPfYf ==
    (/\ call # NoKwCall
     /\ call.method = "total_gov_pmt"
     /\ call.args = <<>>
     /\ DOMAIN call.kwargs \subseteq {"pf", "yf"})
    => call.ret = Returned(C14_Total(C14_Factor("pf"), C14_Factor("yf")))

\* C14: a factor the caller leaves out is 1 and the factors can be passed
\* by the keywords pf and yf: a call of total_cost, total_revenue or
\* total_gov_pmt with no positional arguments and keywords among pf and yf
\* (total_cost: yf alone) returns the total at those factors
C14_KeywordsPfYf ==
    (/\ call # NoKwCall
     /\ call.args = <<>>
     /\ DOMAIN call.kwargs \subseteq
           (IF call.method = "total_cost" THEN {"yf"} ELSE {"pf", "yf"}))
    => call.ret = Returned(C14_Total(C14_Factor("pf"), C14_Factor("yf")))

\* c.total_cost(yf=0.5) raises TypeError
C14_TotalCostRejectsYf ==
    /\ call # NoKwCall
    /\ call.method = "total_cost"
    /\ call.args = <<>>
    /\ DOMAIN call.kwargs = {"yf"}
    /\ call.kwargs["yf"] = Q(1, 2)
    /\ call.ret = Raised("TypeError")

----------------------------------------------------------------------------
(* Revenue totals in Python's floating-point arithmetic                    *)

\* the significand of a Python float: 53 bits (sys.float_info.mant_dig)
mant_dig == 53

\* A non-negative float is the set of the positions of the 1 bits of its
\* binary expansion: the float 2.5 is {1, -1}.
SetMax(S) == CHOOSE x \in S : \A y \in S : y <= x
SetMin(S) == CHOOSE x \in S : \A y \in S : x <= y

\* the expansion of an int 0 <= n < 2^31
int_bits(n) == {i \in 0..30 : (n \div Pow(2, i)) % 2 = 1}

\* the carry into position i when the expansions A and B are added
carry_into(A, B, i) ==
    \E j \in A \cap B :
        j < i /\ \A k \in (j + 1)..(i - 1) : k \in A \cup B

\* A + B, exactly
exact_add(A, B) ==
    IF A \cup B = {} THEN {}
    ELSE {i \in SetMin(A \cup B)..(SetMax(A \cup B) + 1) :
            ((i \in A) # (i \in B)) # carry_into(A, B, i)}

\* the float nearest to the expansion S (sticky: more 1 bits follow below
\* S), a tie going to the even significand
round_to_float(S, sticky) ==
    IF S = {} THEN {}
    ELSE LET last == SetMax(S) - (mant_dig - 1)
             half == last - 1
             kept == {i \in S : i >= last}
             more == sticky \/ \E i \in S : i < half
             up   == half \in S /\ (more \/ last \in S)
         IN  IF up THEN exact_add(kept, {last}) ELSE kept

\* x + y on floats
float_add(A, B) == round_to_float(exact_add(A, B), FALSE)

\* the bits after the binary point of r/d from position pos down, as many
\* as the significand and its guard bit still want (left), and the
\* remainder below them
RECURSIVE frac_bits(_, _, _, _)
frac_bits(r, d, pos, left) ==
    IF r = 0 \/ left = 0 THEN [bits |-> {}, rem |-> r]
    ELSE LET b    == (2 * r) \div d
             rest == frac_bits((2 * r) % d, d, pos - 1,
                               IF b = 1 \/ left < mant_dig + 1
                               THEN left - 1 ELSE left)
         IN  [bits |-> (IF b = 1 THEN {pos} ELSE {}) \cup rest.bits,
              rem  |-> rest.rem]

\* float(v), and the float of an int: the float nearest to the number
\* x = <<n, d>> >= 0 that the text or the int stands for
float_of(x) ==
    LET whole == int_bits(x[1] \div x[2])
        used  == IF whole = {} THEN 0 ELSE SetMax(whole) + 1
        fb    == frac_bits(x[1] % x[2], x[2], -1, mant_dig + 1 - used)
    IN  round_to_float(whole \cup fb.bits, fb.rem # 0)

\* sum(items) of non-negative numbers of which one at least is a float
RECURSIVE float_sum(_)
float_sum(items) ==
    IF items = <<>> THEN {}
    ELSE float_add(float_sum(SubSeq(items, 1, Len(items) - 1)),
                   items[Len(items)])

\* the variant of the crops of total_revenue_grain without wheat
grain_crops_corn_soy == <<"corn", "soy">>

\* total_revenue_grain: for crop in ['corn', 'soy', 'wheat']
grain_crops == <<"corn", "soy", "wheat">>

\* total_revenue_crop, the int of corn and soy and the fact of wheat as
\* floats
total_revenue_crop_float(self, crop, price_factor, yield_factor) ==
    float_of(total_revenue_crop(self, crop, price_factor, yield_factor))

\* total_revenue_grain
total_revenue_grain_float(self, price_factor, yield_factor) ==
    float_sum([i \in 1..Len(grain_crops) |->
                  total_revenue_crop_float(self, grain_crops[i],
                                           price_factor, yield_factor)])

\* the term of a crop in total_revenue_other
other_revenue_crop_float(self, crop) ==
    float_add(float_add(float_add(float_of(c(self, "ppp_loan_forgive", crop)),
                                  float_of(c(self, "mfp_cfap", crop))),
                        float_of(c(self, "rental_revenue", crop))),
              float_of(c(self, "other_revenue", crop)))

\* total_revenue_other
total_revenue_other_float(self) ==
    float_sum(<<other_revenue_crop_float(self, "corn"),
                other_revenue_crop_float(self, "soy")>>)

\* total_revenue
total_revenue_float(self, price_factor, yield_factor) ==
    float_sum(<<float_of(self["revenue_wheat"]),
                float_of(revenue_uncontracted(self, price_factor,
                                              yield_factor)),
                float_of(revenue_contracted(self, One)),
                total_revenue_other_float(self)>>)

\* the three totals a caller compares
FloatOps == {"total_revenue", "total_revenue_grain", "total_revenue_other"}

float_total(self, op, pf, yf) ==
    CASE op = "total_revenue" -> total_revenue_float(self, pf, yf)
      [] op = "total_revenue_grain" -> total_revenue_grain_float(self, pf, yf)
      [] op = "total_revenue_other" -> total_revenue_other_float(self)

\* the factors of the comparison
FloatFactors == {Q(1, 2), One}

\* Revenue data files of a farm of some thousand acres, with a wheat revenue
\* and an other revenue in whole dollars or in dollars and cents
FloatRevenueData ==
    {("revenue_wheat" :> wheat) @@ ("other_revenue_corn" :> other)
     @@ Times(RevenueData(cbu, I(5), I(25), I(10)), RevenueAmounts, 1000) :
        wheat \in {I(1118), Q(111871, 100)},
        other \in {I(4247), Q(424715, 100)},
        cbu \in {I(0), I(7)}}

\* no comparison under way
NoSums == [sums |-> "none"]

\* the caller picks the factors
StartSums(pf, yf) ==
    /\ call = NoSums
    /\ call' = [pf |-> pf, yf |-> yf, res |-> <<>>]
    /\ UNCHANGED <<g, cst, rv>>

\* r.total_revenue(pf, yf), r.total_revenue_grain(pf, yf) or
\* r.total_revenue_other()
FloatTotal(op) ==
    /\ call # NoSums
    /\ op \notin DOMAIN call.res
    /\ call' = [call EXCEPT !.res =
                   (op :> float_total(rv, op, call.pf, call.yf)) @@ @]
    /\ UNCHANGED <<g, cst, rv>>

\* the comparison is over
SumsDone ==
    /\ call # NoSums
    /\ DOMAIN call.res = FloatOps
    /\ call' = NoSums
    /\ UNCHANGED <<g, cst, rv>>

InitFloat ==
    /\ rv \in FloatRevenueData
    /\ call = NoSums
    /\ g = Idle /\ cst = Idle
    /\ gret = Idle /\ cres = Idle /\ rret = Idle
    /\ files = Idle /\ inst = Idle

NextFloat ==
    \/ \E pf \in FloatFactors, yf \in FloatFactors :
          StartSums(pf, yf) /\ UNCHANGED <<gret, cres, rret, loadVars>>
    \/ \E op \in FloatOps :
          FloatTotal(op) /\ UNCHANGED <<gret, cres, rret, loadVars>>
    \/ SumsDone /\ UNCHANGED <<gret, cres, rret, loadVars>>

SpecFloat == InitFloat /\ [][NextFloat]_vars

----------------------------------------------------------------------------
(* Claims about the two aggregation paths (checked under SpecFloat)        *)

\* the caller has the three totals
C15_Asked == call # NoSums /\ DOMAIN call.res = FloatOps

\* the facts that are summed as they stand
C15_SummedFacts ==
    {"revenue_wheat"} \cup
    {a \o "_" \o crop :
        a \in {"ppp_loan_forgive", "mfp_cfap", "rental_revenue",
               "other_revenue"},
        crop \in {"corn", "soy"}}

\* every summed fact is a whole number
C15_WholeDollars == \A a \in C15_SummedFacts : rv[a][2] = 1

\* r.total_revenue(pf, yf) == r.total_revenue_grain(pf, yf) +
\* r.total_revenue_other()
C15_FloatsEqual ==
    call.res["total_revenue"] =
        float_add(call.res["total_revenue_grain"],
                  call.res["total_revenue_other"])

\* C15 as stated: for every fact set and every pf, yf the total revenue
\* the code returns equals the grain total it returns plus the other
\* revenue it returns
C15_PathsAgree == C15_Asked => C15_FloatsEqual

\* C15, amended: the sum by category and the sum by crop are the same
\* amount in exact arithmetic, and the totals the code returns are equal
\* whenever the summed facts are whole numbers
C15_PathsAgreeOnWholeDollars ==
    C15_Asked =>
        /\ total_revenue(rv, call.pf, call.yf) =
              RAdd(total_revenue_grain(rv, call.pf, call.yf),
                   total_revenue_other(rv))
        /\ C15_WholeDollars => C15_FloatsEqual

\* the three totals of a fact set in whole dollars at half the price, with
\* a wheat revenue that counts
C15_Witness ==
    /\ C15_Asked
    /\ C15_WholeDollars
    /\ call.pf = Q(1, 2)
    /\ call.res["total_revenue_grain"] #
          float_add(total_revenue_crop_float(rv, "corn", call.pf, call.yf),
                    total_revenue_crop_float(rv, "soy", call.pf, call.yf))
    /\ C15_FloatsEqual

\* the three totals of a fact set in dollars and cents that are not equal
C15_CentsDiffer ==
    /\ C15_Asked
    /\ ~C15_WholeDollars
    /\ ~C15_FloatsEqual

----------------------------------------------------------------------------
(* Claims about the sign of the government payment (checked under SpecGov) *)

\* the facts of g that are amounts, rates and fractions
C16_Facts == DOMAIN g \ {"program_" \o crop : crop \in Crops}

\* every fact is non-negative and the four fractions are at most 1
C16_FactsInRange ==
    /\ \A a \in C16_Facts : RLe(I(0), g[a])
    /\ \A a \in {"sequest_frac", "base_to_net_pmt_frac", "guar_rev_frac",
                 "cap_on_bmk_cty_rev"} : RLe(g[a], One)

\* C16: for facts that are non-negative, with the fractions in [0, 1], and
\* factors pf >= 0 and yf >= 0, whatever the programs selected, the value
\* total_gov_pmt returns is never negative and neither is the
\* pre-sequestration payment of a crop, PLC or ARC-CO
C16_NeverNegative ==
    (/\ gret # NoCall
     /\ C16_FactsInRange
     /\ RLe(I(0), gret.pf))
    => /\ gret.op = "total_gov_pmt" => gret.val >= 0
       /\ gret.op \in {"prog_pmt_pre_sequest_crop", "plc_pmt_pre_sequest"}
             => RLe(I(0), gret.val)

\* a total below zero: wheat is in PLC with a national loan rate above its
\* statutory reference rate
C16_NegativeTotal ==
    /\ gret # NoCall
    /\ gret.op = "total_gov_pmt"
    /\ C16_FactsInRange
    /\ g["program_wheat"] = PLC
    /\ RLt(g["stat_ref_rate_farm_bill_wheat"], g["natl_loan_rate_wheat"])
    /\ gret.val < 0

\* with every loan rate at or below its reference rate no payment is
\* negative
C16_NeverNegativeWhenLoanBelowRef ==
    (/\ gret # NoCall
     /\ \A crop \in Crops :
           RLe(g["natl_loan_rate_" \o crop],
               g["stat_ref_rate_farm_bill_" \o crop]))
    => /\ gret.op = "total_gov_pmt" => gret.val >= 0
       /\ gret.op \in {"prog_pmt_pre_sequest_crop", "plc_pmt_pre_sequest"}
             => RLe(I(0), gret.val)

----------------------------------------------------------------------------
(* Claims about the program selector (checked under SpecGov)               *)

\* C17: prog_pmt_pre_sequest_crop returns the ARC-CO payment exactly when
\* the program value stored for the crop is ARC_CO (2) and the PLC payment
\* for every other stored value; a value that is neither PLC (1) nor ARC_CO
\* is not rejected but computed as PLC, and the payment of such a crop is
\* the same for every yf
C17_OtherValueIsPlc ==
    (gret # NoCall /\ gret.op = "prog_pmt_pre_sequest_crop") =>
        IF g["program_" \o gret.crop] = ARC_CO
        THEN gret.val = arc_pmt_pre_sequest(g, gret.crop, gret.pf, gret.yf)
        ELSE /\ gret.val = plc_pmt_pre_sequest(g, gret.crop, gret.pf)
             /\ \A yf \in Factors :
                   prog_pmt_pre_sequest_crop(g, gret.crop, gret.pf, yf)
                       = gret.val

\* the payment of a crop whose program value is 3 has been computed, at
\* factors where its ARC-CO payment is another amount and depends on yf
C17_Witness ==
    /\ gret # NoCall
    /\ gret.op = "prog_pmt_pre_sequest_crop"
    /\ g["program_" \o gret.crop] \notin {PLC, ARC_CO}
    /\ gret.val = plc_pmt_pre_sequest(g, gret.crop, gret.pf)
    /\ gret.val # arc_pmt_pre_sequest(g, gret.crop, gret.pf, gret.yf)
    /\ \E yf \in Factors :
          arc_pmt_pre_sequest(g, gret.crop, gret.pf, yf)
              # arc_pmt_pre_sequest(g, gret.crop, gret.pf, gret.yf)

=============================================================================
